---- MODULE Spec2Model ----
(***************************************************************************)
(* SecureChat: the presence and session-consistency protocol of the chat   *)
(* client, over a shared document store.                                   *)
(*                                                                         *)
(* The repository holds two generations of the client:                     *)
(*   src/unnamed/part_000  the current client (heartbeat, stale-peer       *)
(*                         reaper, typing, delta-mode message listener);   *)
(*   src/app.js            the earlier client (no timers, full resync).    *)
(* Definitions without prefix model part_000; definitions prefixed app_    *)
(* model src/app.js.  Both run against the same store variables.           *)
(*                                                                         *)
(* Every async handler is cut at its awaits: one action per synchronous    *)
(* segment.  A store operation takes effect in the step in which its       *)
(* await resumes; it may fail (the store is a remote service), which       *)
(* enters the handler's catch branch.                                      *)
(***************************************************************************)
EXTENDS Integers, Sequences, FiniteSets, TLC

\* ------------------------------------------------------------------ bounds
\* Typing writes one client may have issued and not yet seen applied.
MaxTypingOps == 1
\* Number of steps the clock takes (see clockSteps).
MaxTicks == 3
\* hashchange events that may be queued for one window.
MaxHashEvents == 1
\* Async handlers of one client that may be suspended at the same time.
MaxInFlight == 2
\* Form submissions, button presses and address edits the users make in a run.
MaxUserActions == 4
\* Messages sent in a run of the message-list scenario.
MaxMessages == 2
\* the length of the strings typed as a room name, when all of them are tried
MaxLen == 3
\* the millisecond clock of the typing timers advances in steps of MsStep up to MaxMs
MsStep == 500
MaxMs == 6000
\* setTimeout delays of the typing indicator
debounceDelay == 1000
inactivityDelay == 3000

\* ------------------------------------------------------- program constants
staleThreshold == 60
rejoinWindow == 300
recentLimit == 50

\* ------------------------------------------------------------------ values
\* Identity ids (Firebase uid of each browser tab).
Clients == {"u1", "u2", "u3"}
\* Strings are sequences of characters.
\* Room keys.  "null" is an ordinary room key; it is also what
\* sessionStorage.setItem stores when currentRoom is null.
RoomR == <<"r">>
RoomNull == <<"n", "u", "l", "l">>
Rooms == {RoomR, RoomNull}
\* JavaScript null / '' for a room (both falsy).
NoRoom == <<>>
\* JavaScript null for userName (userName is never '').
NoName == <<>>
\* What the user types into the forms.
RoomInputs == { <<"r">>, <<" ", "R">>, <<"n", "u", "l", "l">>, <<"!">> }
NameInputs == { <<"a">>, <<"A">>, <<"b", "a">>, <<" ", "a">>, <<" ">> }
PasswordInputs == { <<"p">>, <<"p", " ">>, <<"q">> }

Screens == {"loading", "room", "password", "name", "chat"}

\* ----------------------------------------------------- string operations
RECURSIVE trimStart(_)
trimStart(s) ==
    IF s = <<>> THEN s
    ELSE IF Head(s) = " " THEN trimStart(Tail(s)) ELSE s

RECURSIVE trimEnd(_)
trimEnd(s) ==
    IF s = <<>> THEN s
    ELSE IF s[Len(s)] = " " THEN trimEnd(SubSeq(s, 1, Len(s) - 1)) ELSE s

\* String.prototype.trim
trim(s) == trimEnd(trimStart(s))

lowerChar(ch) ==
    CASE ch = "A" -> "a"
      [] ch = "B" -> "b"
      [] ch = "R" -> "r"
      [] OTHER -> ch

\* the characters the room-name pattern [a-z0-9-] keeps, among those modelled
roomChars == {"a", "b", "l", "n", "r", "u", "0", "1", "-"}

\* a replace that removes nothing
keepRoomName(s) == s

RECURSIVE stripRoomName(_)
\* String.prototype.replace(/[^a-z0-9-]/g, '')
stripRoomName(s) ==
    IF s = <<>> THEN s
    ELSE IF Head(s) \in roomChars THEN <<Head(s)>> \o stripRoomName(Tail(s))
         ELSE stripRoomName(Tail(s))

\* String.prototype.toLowerCase
toLowerCase(s) == [i \in 1..Len(s) |-> lowerChar(s[i])]

\* The room name of the room form, as both generations of handleRoomFormSubmit
\* compute it: value.trim().toLowerCase().replace(/[^a-z0-9-]/g, '')
normalize(x) == stripRoomName(toLowerCase(trim(x)))

\* `${userName}` in a template literal: null prints as "null".
templateName(n) == IF n = NoName THEN <<"n", "u", "l", "l">> ELSE n

\* String(currentRoom), as sessionStorage.setItem coerces its value.
templateRoom(r) == IF r = NoRoom THEN RoomNull ELSE r

endsWith(s, t) ==
    /\ Len(t) <= Len(s)
    /\ SubSeq(s, Len(s) - Len(t) + 1, Len(s)) = t

\* hashPassword: SHA-256 of the string, hex encoded.  Modelled as an
\* injective tag of the input (no collisions within the inputs modelled).
hashPassword(password) == <<"sha256", password>>

\* ---------------------------------------------------------------- state
VARIABLES
    \* the document store
    rooms,          \* chat-rooms/{room}: partial map room -> passwordHash
    users,          \* chat-rooms/{room}/users/{id}: per room, partial map id -> record
    messages,       \* chat-rooms/{room}/messages: per room, sequence in write order
    typing,         \* chat-rooms/{room}/typing/{id}: per room, partial map id -> record
    clock,          \* number of steps the clock has taken
    \* per client: the module-level variables of the script
    ui,             \* the screen showUI last selected
    currentRoom, userName, isNavigating,
    isTyping, typingDebounceTimer, typingTimeout,
    roomError, passwordError, nameError,   \* the text each error element shows, "" when hidden
    unsubscribeMessages, unsubscribeUsers, unsubscribeTyping,
    heartbeatInterval, presenceCleanupInterval, beforeUnloadHandler,
    \* per client: the browser
    hash,           \* window.location.hash without '#'
    hashEvents,     \* queued hashchange events
    savedRoom,      \* sessionStorage securechat_lastRoom
    \* per client: async handlers suspended at an await
    verifying,      \* verifyRoomExists: set of rooms whose getDoc is pending
    roomForm, passwordForm, nameForm, leaving, heartbeat, cleanup,
    typingOps,      \* typing writes issued and not awaited, in issue order
    \* per client: rooms whose password gate the client passed in this session
    passed,
    \* per client: the <<room, passwordHash>> pairs with which its room form
    \* has created or joined a room in this session
    createdOrJoined,
    \* per client: the runs of the unload handler since the page was shown, in
    \* firing order, each with the signal that fired it and the point its
    \* cleanupUserPresence call has reached
    unloads,
    \* per client: the message documents its form has created, in creation order
    ownDocs,
    \* per client, the message listener: how much of the room's log its last
    \* snapshot reflected, that snapshot, whether its first snapshot is still
    \* to come, and the message list of the page in display order
    seen, lastSnapshot, isInitialMessageLoad, messageList,
    \* the ids of the Map messageCache of each client
    messageCache,
    \* the Map usersInRoom of each client: identity id -> Presence Record
    usersInRoom,
    \* the clear-history handler of each client
    deleteChat,
    \* the millisecond clock of the typing timers, the instants at which the
    \* debounce timer and the inactivity timer of each client are due, and
    \* what each client has typed (its current burst of keystrokes)
    ms, debounceDue, timeoutDue, keystrokes,
    \* the Set typingUsers of each client (shown), with the snapshot of the
    \* Typing Records its listener delivered last
    typingUsers,
    \* form submissions, button presses and address edits made so far
    userActions

storeVars == <<rooms, users, messages, typing>>
subVars == <<unsubscribeMessages, unsubscribeUsers, unsubscribeTyping>>
timerVars == <<heartbeatInterval, presenceCleanupInterval, beforeUnloadHandler>>
scriptVars == <<ui, currentRoom, userName, isNavigating>>
errorVars == <<roomError, passwordError, nameError>>
browserVars == <<hash, hashEvents, savedRoom>>
timedVars == <<ms, debounceDue, timeoutDue, keystrokes>>
typingVars == <<isTyping, typingDebounceTimer, typingTimeout, typingOps, timedVars,
                typingUsers>>
handlerVars == <<verifying, roomForm, passwordForm, nameForm, leaving, heartbeat, cleanup>>
renderVars == <<ownDocs, seen, lastSnapshot, isInitialMessageLoad, messageList, messageCache,
                usersInRoom, deleteChat>>
vars == <<storeVars, clock, scriptVars, errorVars, subVars, timerVars, browserVars, typingVars,
          handlerVars, passed, createdOrJoined, unloads, renderVars, userActions>>

Idle == [pc |-> "idle"]
\* nothing typed yet; otherwise: when the last keystroke came, whether the
\* client was marked typing when its burst began, and the Typing Record
\* writes the burst has issued
NoKeystrokes == [any |-> FALSE, last |-> 0, typingAtStart |-> FALSE, writes |-> 0]
\* no entry shown and no snapshot delivered yet
NoTyping == [fresh |-> TRUE, snapshot |-> <<>>, shown |-> {}]
\* a subscription handle: null, or the unsubscribe function of a listener on
\* `room`, which is `live` until it has been called
NoSub == [room |-> NoRoom, live |-> FALSE]
Sub(r) == [room |-> r, live |-> TRUE]

\* --------------------------------------------------------- store helpers
Exists(r) == r \in DOMAIN rooms
HasUser(r, id) == id \in DOMAIN users[r]
Remove(f, k) == [x \in DOMAIN f \ {k} |-> f[x]]
Put(f, k, v) == (k :> v) @@ f

\* The instants the clock visits: the ages 59, 60 and 61 seconds around the
\* stale threshold.
StartTime == 1000
clockSteps == <<59, 1, 1>>
RECURSIVE elapsed(_)
elapsed(n) == IF n = 0 THEN 0 ELSE elapsed(n - 1) + clockSteps[((n - 1) % Len(clockSteps)) + 1]
\* Math.floor(Date.now() / 1000), and the seconds of serverTimestamp()
now == StartTime + elapsed(clock)

eventMsg(kind, who) ==
    [type |-> "event", kind |-> kind, who |-> who, senderId |-> "system", timestamp |-> now]

\* Handlers of c suspended at an await.
InFlight(c) ==
    Cardinality(verifying[c])
    + Cardinality({ h \in {roomForm, passwordForm, nameForm, leaving, heartbeat, cleanup} :
                      h[c].pc # "idle" })
CanStart(c) == InFlight(c) < MaxInFlight

\* One more action of a user.
UserAct ==
    /\ userActions < MaxUserActions
    /\ userActions' = userActions + 1

\* ------------------------------------------------------------------ Init
\* No Presence Record, message or Typing Record anywhere; the clock at its start.
StoreEmpty ==
    /\ users = [r \in Rooms |-> <<>>]
    /\ messages = [r \in Rooms |-> <<>>]
    /\ typing = [r \in Rooms |-> <<>>]
    /\ clock = 0

\* The module-level variables as the script declares them, no handler running.
ScriptIdle ==
    /\ userName = [c \in Clients |-> NoName]
    /\ isNavigating = [c \in Clients |-> FALSE]
    /\ roomError = [c \in Clients |-> ""]
    /\ passwordError = [c \in Clients |-> ""]
    /\ nameError = [c \in Clients |-> ""]
    /\ isTyping = [c \in Clients |-> FALSE]
    /\ typingDebounceTimer = [c \in Clients |-> FALSE]
    /\ typingTimeout = [c \in Clients |-> FALSE]
    /\ typingOps = [c \in Clients |-> <<>>]
    /\ ms = 0
    /\ debounceDue = [c \in Clients |-> 0]
    /\ timeoutDue = [c \in Clients |-> 0]
    /\ keystrokes = [c \in Clients |-> NoKeystrokes]
    /\ typingUsers = [c \in Clients |-> NoTyping]
    /\ unsubscribeMessages = [c \in Clients |-> NoSub]
    /\ unsubscribeUsers = [c \in Clients |-> NoSub]
    /\ unsubscribeTyping = [c \in Clients |-> NoSub]
    /\ heartbeatInterval = [c \in Clients |-> NoRoom]
    /\ presenceCleanupInterval = [c \in Clients |-> NoRoom]
    /\ beforeUnloadHandler = [c \in Clients |-> FALSE]
    /\ verifying = [c \in Clients |-> {}]
    /\ roomForm = [c \in Clients |-> Idle]
    /\ passwordForm = [c \in Clients |-> Idle]
    /\ nameForm = [c \in Clients |-> Idle]
    /\ leaving = [c \in Clients |-> Idle]
    /\ heartbeat = [c \in Clients |-> Idle]
    /\ cleanup = [c \in Clients |-> Idle]
    /\ createdOrJoined = [c \in Clients |-> {}]
    /\ unloads = [c \in Clients |-> <<>>]
    /\ ownDocs = [c \in Clients |-> <<>>]
    /\ seen = [c \in Clients |-> 0]
    /\ lastSnapshot = [c \in Clients |-> <<>>]
    /\ isInitialMessageLoad = [c \in Clients |-> TRUE]
    /\ messageList = [c \in Clients |-> <<>>]
    /\ messageCache = [c \in Clients |-> {}]
    /\ usersInRoom = [c \in Clients |-> <<>>]
    /\ deleteChat = [c \in Clients |-> Idle]
    /\ userActions = 0

\* ... and no hashchange event waiting.
TabsIdle ==
    /\ ScriptIdle
    /\ hashEvents = [c \in Clients |-> 0]

\* The tabs of `inside` are on the name screen of room r, having passed its
\* gate (the hashchange event of the entry already consumed); those of
\* `saving` among them have the room in session storage.  Every other tab is
\* on the room screen of a fresh session.
OnNameScreen(inside, saving, r) ==
    /\ ui = [c \in Clients |-> IF c \in inside THEN "name" ELSE "room"]
    /\ currentRoom = [c \in Clients |-> IF c \in inside THEN r ELSE NoRoom]
    /\ hash = [c \in Clients |-> IF c \in inside THEN r ELSE NoRoom]
    /\ savedRoom = [c \in Clients |-> IF c \in saving THEN r ELSE NoRoom]
    /\ passed = [c \in Clients |-> IF c \in inside THEN {r} ELSE {}]

\* A fresh tab opened on the application's address without a fragment, on
\* an empty store: initializeAppLogic has run (checkSavedSession finds
\* nothing, handleHashChange shows the room screen).
Init ==
    /\ rooms = <<>>
    /\ StoreEmpty
    /\ TabsIdle
    /\ OnNameScreen({}, {}, NoRoom)

\* ------------------------------------------------------- browser: the hash
\* window.location.hash = h: a hashchange event is queued when the fragment
\* changes, none when it is assigned its present value.
hashAfter(c, h) == [hash EXCEPT ![c] = h]
eventsAfter(c, h, queued) == [hashEvents EXCEPT ![c] = queued + (IF h = hash[c] THEN 0 ELSE 1)]
\* an assignment the queue bound has room for
canAssign(c, h) == h = hash[c] \/ hashEvents[c] < MaxHashEvents

\* The user edits the address, follows a room link or goes back.
UserHashChange(c, h) ==
    /\ h # hash[c]
    /\ hashEvents[c] < MaxHashEvents
    /\ hash' = hashAfter(c, h)
    /\ hashEvents' = eventsAfter(c, h, hashEvents[c])
    /\ UNCHANGED <<storeVars, clock, scriptVars, errorVars, subVars, timerVars,
                   savedRoom, typingVars, handlerVars, passed, createdOrJoined, unloads, renderVars>>
    /\ UserAct

\* ------------------------------------------------------ typing (stop side)
\* stopTypingIndicator without its `if (isTyping)`: the delete is issued on
\* every call
stopTyping_alwaysDeletes(c) ==
    IF currentRoom[c] = NoRoom
    THEN UNCHANGED <<isTyping, typingDebounceTimer, typingTimeout, typingOps, timedVars>>
    ELSE /\ typingDebounceTimer' = [typingDebounceTimer EXCEPT ![c] = FALSE]
         /\ isTyping' = [isTyping EXCEPT ![c] = FALSE]
         /\ typingOps' = [typingOps EXCEPT ![c] =
                                 Append(@, [op |-> "delete", room |-> currentRoom[c]])]
         /\ typingTimeout' = [typingTimeout EXCEPT ![c] = FALSE]
         /\ UNCHANGED timedVars

\* stopTypingIndicator: the values it leaves in the typing variables of c
\* (typingUsers, which it does not touch, is left to the caller).
stopTyping(c) ==
    IF currentRoom[c] = NoRoom
    THEN UNCHANGED <<isTyping, typingDebounceTimer, typingTimeout, typingOps, timedVars>>
    ELSE /\ typingDebounceTimer' = [typingDebounceTimer EXCEPT ![c] = FALSE]
         /\ isTyping' = [isTyping EXCEPT ![c] = FALSE]
         /\ typingOps' = IF isTyping[c]
                         THEN [typingOps EXCEPT ![c] =
                                 Append(@, [op |-> "delete", room |-> currentRoom[c]])]
                         ELSE typingOps
         /\ typingTimeout' = [typingTimeout EXCEPT ![c] = FALSE]
         /\ UNCHANGED timedVars

stopTypingIndicator(c) ==
    /\ stopTyping(c)
    /\ UNCHANGED typingUsers

\* cleanupSubscriptions: everything but its stopTypingIndicator call and
\* its typingUsers.clear().
releaseHandles(c) ==
    /\ unsubscribeMessages' = [unsubscribeMessages EXCEPT ![c] = NoSub]
    /\ unsubscribeUsers' = [unsubscribeUsers EXCEPT ![c] = NoSub]
    /\ unsubscribeTyping' = [unsubscribeTyping EXCEPT ![c] = NoSub]
    /\ heartbeatInterval' = [heartbeatInterval EXCEPT ![c] = NoRoom]
    /\ presenceCleanupInterval' = [presenceCleanupInterval EXCEPT ![c] = NoRoom]
    /\ beforeUnloadHandler' = [beforeUnloadHandler EXCEPT ![c] = FALSE]

cleanupSubscriptions(c) ==
    /\ releaseHandles(c)
    /\ stopTyping(c)
    /\ typingUsers' = [typingUsers EXCEPT ![c] = NoTyping]

\* -------------------------------------------------------------- routing
\* handleHashChange, run for one queued hashchange event.
handleHashChange(c) ==
    /\ hashEvents[c] > 0
    /\ isNavigating[c] \/ hash[c] = NoRoom \/ CanStart(c)
    /\ IF isNavigating[c]
       THEN /\ isNavigating' = [isNavigating EXCEPT ![c] = FALSE]
            /\ hashEvents' = [hashEvents EXCEPT ![c] = @ - 1]
            /\ UNCHANGED <<ui, currentRoom, userName, subVars, timerVars, hash,
                           savedRoom, typingVars, verifying>>
       ELSE /\ cleanupSubscriptions(c)
            /\ IF hash[c] # NoRoom
               THEN /\ currentRoom' = [currentRoom EXCEPT ![c] = hash[c]]
                    /\ ui' = [ui EXCEPT ![c] = "loading"]
                    /\ verifying' = [verifying EXCEPT ![c] = @ \cup {hash[c]}]
                    /\ hashEvents' = [hashEvents EXCEPT ![c] = @ - 1]
                    /\ UNCHANGED <<userName, isNavigating, hash, savedRoom>>
               ELSE IF savedRoom[c] # NoRoom
               THEN /\ currentRoom' = [currentRoom EXCEPT ![c] = savedRoom[c]]
                    /\ isNavigating' = [isNavigating EXCEPT ![c] = TRUE]
                    /\ hash' = hashAfter(c, savedRoom[c])
                    /\ hashEvents' = eventsAfter(c, savedRoom[c], hashEvents[c] - 1)
                    /\ UNCHANGED <<ui, userName, savedRoom, verifying>>
               ELSE /\ currentRoom' = [currentRoom EXCEPT ![c] = NoRoom]
                    /\ userName' = [userName EXCEPT ![c] = NoName]
                    /\ ui' = [ui EXCEPT ![c] = "room"]
                    /\ hashEvents' = [hashEvents EXCEPT ![c] = @ - 1]
                    /\ UNCHANGED <<isNavigating, hash, savedRoom, verifying>>
    /\ UNCHANGED <<storeVars, clock, errorVars, roomForm, passwordForm, nameForm,
                   leaving, heartbeat, cleanup, passed, createdOrJoined, unloads, renderVars, userActions>>

\* verifyRoomExists resumed from its getDoc of room r.
verifyRoomExists(c, r, ok) ==
    /\ r \in verifying[c]
    /\ verifying' = [verifying EXCEPT ![c] = @ \ {r}]
    /\ IF ok /\ Exists(r)
       THEN /\ ui' = [ui EXCEPT ![c] = "password"]
            /\ UNCHANGED <<hash, hashEvents, roomError>>
       ELSE /\ canAssign(c, NoRoom)
            /\ roomError' = [roomError EXCEPT ![c] =
                    IF ok THEN "Room not found. You can create it." ELSE "An error occurred."]
            /\ hash' = hashAfter(c, NoRoom)
            /\ hashEvents' = eventsAfter(c, NoRoom, hashEvents[c])
            /\ UNCHANGED ui
    /\ UNCHANGED <<storeVars, clock, currentRoom, userName, isNavigating, passwordError,
                   nameError, subVars, timerVars, savedRoom, typingVars, roomForm,
                   passwordForm, nameForm, leaving, heartbeat, cleanup, passed, createdOrJoined, unloads, renderVars, userActions>>

\* The back-to-rooms button of the password screen.
backToRoomsBtn(c) ==
    /\ ui[c] = "password"
    /\ canAssign(c, NoRoom)
    /\ savedRoom' = [savedRoom EXCEPT ![c] = NoRoom]
    /\ hash' = hashAfter(c, NoRoom)
    /\ hashEvents' = eventsAfter(c, NoRoom, hashEvents[c])
    /\ UNCHANGED <<storeVars, clock, scriptVars, errorVars, subVars, timerVars,
                   typingVars, handlerVars, passed, createdOrJoined, unloads, renderVars>>
    /\ UserAct

\* ------------------------------------------------------------ room form
\* The tail shared by both success branches of handleRoomFormSubmit.
enterRoom(c, roomName) ==
    /\ canAssign(c, roomName)
    /\ currentRoom' = [currentRoom EXCEPT ![c] = roomName]
    /\ savedRoom' = [savedRoom EXCEPT ![c] = roomName]
    /\ isNavigating' = [isNavigating EXCEPT ![c] = TRUE]
    /\ hash' = hashAfter(c, roomName)
    /\ hashEvents' = eventsAfter(c, roomName, hashEvents[c])
    /\ ui' = [ui EXCEPT ![c] = "name"]
    /\ passed' = [passed EXCEPT ![c] = @ \cup {roomName}]
    /\ createdOrJoined' = [createdOrJoined EXCEPT ![c] =
                                @ \cup {<<roomName, roomForm[c].passwordHash>>}]
    /\ UNCHANGED <<unloads, renderVars>>

\* handleRoomFormSubmit up to the getDoc (the hashPassword await touches no
\* shared state and is folded into this segment).
handleRoomFormSubmit(c, roomInput, passwordInput) ==
    LET roomName == normalize(roomInput)
        password == trim(passwordInput)
    IN  /\ ui[c] = "room"
        /\ CanStart(c)
        /\ roomForm[c].pc = "idle"
        /\ IF roomName = <<>> \/ password = <<>>
           THEN /\ roomError' = [roomError EXCEPT ![c] =
                        "Room name and password are required."]
                /\ UNCHANGED <<ui, roomForm>>
           ELSE /\ roomName \in Rooms
                /\ ui' = [ui EXCEPT ![c] = "loading"]
                /\ roomError' = [roomError EXCEPT ![c] = ""]
                /\ roomForm' = [roomForm EXCEPT ![c] =
                        [pc |-> "getDoc", roomName |-> roomName,
                         passwordHash |-> hashPassword(password),
                         input |-> passwordInput]]
        /\ UNCHANGED <<storeVars, clock, currentRoom, userName, isNavigating,
                       passwordError, nameError, subVars, timerVars, browserVars,
                       typingVars, verifying, passwordForm, nameForm, leaving,
                       heartbeat, cleanup, passed, createdOrJoined, unloads, renderVars>>
        /\ UserAct

\* ... resumed from getDoc.
handleRoomFormSubmit_getDoc(c, ok) ==
    LET f == roomForm[c] IN
    /\ f.pc = "getDoc"
    /\ IF ~ok
       THEN /\ ui' = [ui EXCEPT ![c] = "room"]
            /\ roomError' = [roomError EXCEPT ![c] = "An error occurred. Please try again."]
            /\ roomForm' = [roomForm EXCEPT ![c] = Idle]
            /\ UNCHANGED <<currentRoom, isNavigating, browserVars, passed, createdOrJoined, unloads, renderVars>>
       ELSE IF Exists(f.roomName)
       THEN /\ roomForm' = [roomForm EXCEPT ![c] = Idle]
            /\ IF rooms[f.roomName] = f.passwordHash
               THEN /\ enterRoom(c, f.roomName)
                    /\ UNCHANGED roomError
               ELSE /\ ui' = [ui EXCEPT ![c] = "room"]
                    /\ roomError' = [roomError EXCEPT ![c] = "Invalid password for this room."]
                    /\ UNCHANGED <<currentRoom, isNavigating, browserVars, passed, createdOrJoined, unloads, renderVars>>
       ELSE /\ roomForm' = [roomForm EXCEPT ![c] = [f EXCEPT !.pc = "setDoc"]]
            /\ UNCHANGED <<ui, roomError, currentRoom, isNavigating, browserVars, passed, createdOrJoined, unloads, renderVars>>
    /\ UNCHANGED <<storeVars, clock, userName, passwordError, nameError, subVars,
                   timerVars, typingVars, verifying, passwordForm, nameForm, leaving,
                   heartbeat, cleanup, userActions>>

\* ... resumed from setDoc: the Room record is written whatever it held.
handleRoomFormSubmit_setDoc(c, ok) ==
    LET f == roomForm[c] IN
    /\ f.pc = "setDoc"
    /\ roomForm' = [roomForm EXCEPT ![c] = Idle]
    /\ IF ok
       THEN /\ rooms' = Put(rooms, f.roomName, f.passwordHash)
            /\ enterRoom(c, f.roomName)
            /\ UNCHANGED roomError
       ELSE /\ ui' = [ui EXCEPT ![c] = "room"]
            /\ roomError' = [roomError EXCEPT ![c] = "An error occurred. Please try again."]
            /\ UNCHANGED <<rooms, currentRoom, isNavigating, browserVars, passed, createdOrJoined, unloads, renderVars>>
    /\ UNCHANGED <<users, messages, typing, clock, userName, passwordError, nameError,
                   subVars, timerVars, typingVars, verifying, passwordForm, nameForm,
                   leaving, heartbeat, cleanup, userActions>>

\* -------------------------------------------------------- password form
handlePasswordVerifySubmit(c, passwordInput) ==
    LET password == trim(passwordInput) IN
    /\ ui[c] = "password"
    /\ CanStart(c)
    /\ passwordForm[c].pc = "idle"
    /\ passwordError' = [passwordError EXCEPT ![c] = ""]
    /\ IF password = <<>> \/ currentRoom[c] = NoRoom
       THEN UNCHANGED <<ui, passwordForm>>
       ELSE /\ ui' = [ui EXCEPT ![c] = "loading"]
            /\ passwordForm' = [passwordForm EXCEPT ![c] =
                    [pc |-> "hash", passwordHash |-> hashPassword(password),
                     input |-> passwordInput]]
    /\ UNCHANGED <<storeVars, clock, currentRoom, userName, isNavigating, roomError,
                   nameError, subVars, timerVars, browserVars, typingVars, verifying,
                   roomForm, nameForm, leaving, heartbeat, cleanup, passed, createdOrJoined, unloads, renderVars>>
    /\ UserAct

\* ... resumed from hashPassword: the Room reference is built from the
\* currentRoom of this moment (doc() throws on a null segment).
handlePasswordVerifySubmit_hash(c) ==
    LET f == passwordForm[c] IN
    /\ f.pc = "hash"
    /\ IF currentRoom[c] = NoRoom
       THEN /\ ui' = [ui EXCEPT ![c] = "password"]
            /\ passwordError' = [passwordError EXCEPT ![c] = "An error occurred."]
            /\ passwordForm' = [passwordForm EXCEPT ![c] = Idle]
       ELSE /\ passwordForm' = [passwordForm EXCEPT ![c] =
                    [pc |-> "getDoc", passwordHash |-> f.passwordHash,
                     input |-> f.input, room |-> currentRoom[c]]]
            /\ UNCHANGED <<ui, passwordError>>
    /\ UNCHANGED <<storeVars, clock, currentRoom, userName, isNavigating, roomError,
                   nameError, subVars, timerVars, browserVars, typingVars, verifying,
                   roomForm, nameForm, leaving, heartbeat, cleanup, passed, createdOrJoined, unloads, renderVars, userActions>>

\* ... resumed from getDoc.
handlePasswordVerifySubmit_getDoc(c, ok) ==
    LET f == passwordForm[c] IN
    /\ f.pc = "getDoc"
    /\ passwordForm' = [passwordForm EXCEPT ![c] = Idle]
    /\ IF ok /\ Exists(f.room) /\ rooms[f.room] = f.passwordHash
       THEN /\ savedRoom' = [savedRoom EXCEPT ![c] = templateRoom(currentRoom[c])]
            /\ ui' = [ui EXCEPT ![c] = "name"]
            /\ passed' = [passed EXCEPT ![c] = @ \cup {f.room}]
            /\ UNCHANGED <<createdOrJoined, unloads, renderVars>>
            /\ UNCHANGED passwordError
       ELSE /\ ui' = [ui EXCEPT ![c] = "password"]
            /\ passwordError' = [passwordError EXCEPT ![c] =
                    IF ok THEN "Invalid password. Please try again."
                    ELSE "An error occurred."]
            /\ UNCHANGED <<savedRoom, passed, createdOrJoined, unloads, renderVars>>
    /\ UNCHANGED <<storeVars, clock, currentRoom, userName, isNavigating, roomError,
                   nameError, subVars, timerVars, hash, hashEvents, typingVars,
                   verifying, roomForm, nameForm, leaving, heartbeat, cleanup, userActions>>

\* ------------------------------------------------------------ name form
\* the catch branch of handleNameFormSubmit
nameFormCatch(c) ==
    /\ nameError' = [nameError EXCEPT ![c] = "An error occurred while joining."]
    /\ ui' = [ui EXCEPT ![c] = "name"]
    /\ nameForm' = [nameForm EXCEPT ![c] = Idle]

\* handleNameFormSubmit up to its first await, the getDocs of the room's users.
handleNameFormSubmit(c, nameInput) ==
    LET name == trim(nameInput) IN
    /\ ui[c] = "name"
    /\ CanStart(c)
    /\ nameForm[c].pc = "idle"
    /\ name # <<>> /\ currentRoom[c] # NoRoom
    /\ nameError' = [nameError EXCEPT ![c] = ""]
    /\ ui' = [ui EXCEPT ![c] = "loading"]
    /\ nameForm' = [nameForm EXCEPT ![c] =
            [pc |-> "getDocs", name |-> name, room |-> currentRoom[c]]]
    /\ UNCHANGED <<storeVars, clock, currentRoom, userName, isNavigating, roomError,
                   passwordError, subVars, timerVars, browserVars, typingVars,
                   verifying, roomForm, passwordForm, leaving, heartbeat, cleanup,
                   passed, createdOrJoined, unloads, renderVars>>
    /\ UserAct

\* The scan of the snapshot: doc.data().name.toLowerCase() throws on a null name.
scanThrows(snapshot) == \E id \in DOMAIN snapshot : snapshot[id].name = NoName
\* the comparison without toLowerCase on either side
nameIsTaken_caseSensitive(snapshot, c, name) ==
    \E id \in DOMAIN snapshot :
        /\ snapshot[id].name = name
        /\ id # c
nameIsTaken(snapshot, c, name) ==
    \E id \in DOMAIN snapshot :
        /\ toLowerCase(snapshot[id].name) = toLowerCase(name)
        /\ id # c
existingUserDoc(snapshot, c, name) ==
    /\ c \in DOMAIN snapshot
    /\ toLowerCase(snapshot[c].name) = toLowerCase(name)

\* ... resumed from the getDocs of the users.
handleNameFormSubmit_getDocs(c, ok) ==
    LET f == nameForm[c]
        snapshot == users[f.room]
    IN
    /\ f.pc = "getDocs"
    /\ IF ~ok \/ scanThrows(snapshot)
       THEN nameFormCatch(c) /\ UNCHANGED userName
       ELSE IF nameIsTaken(snapshot, c, f.name)
       THEN /\ nameError' = [nameError EXCEPT ![c] =
                    "This name is already in use. Please choose another."]
            /\ ui' = [ui EXCEPT ![c] = "name"]
            /\ nameForm' = [nameForm EXCEPT ![c] = Idle]
            /\ UNCHANGED userName
       ELSE /\ userName' = [userName EXCEPT ![c] = f.name]
            /\ IF currentRoom[c] = NoRoom
               THEN nameFormCatch(c)
               ELSE /\ nameForm' = [nameForm EXCEPT ![c] =
                            [pc |-> IF existingUserDoc(snapshot, c, f.name)
                                    THEN "updateDoc" ELSE "getMessages",
                             name |-> f.name, room |-> currentRoom[c],
                             existingUserDoc |-> existingUserDoc(snapshot, c, f.name)]]
                    /\ UNCHANGED <<ui, nameError>>
    /\ UNCHANGED <<storeVars, clock, currentRoom, isNavigating, roomError,
                   passwordError, subVars, timerVars, browserVars, typingVars,
                   verifying, roomForm, passwordForm, leaving, heartbeat, cleanup,
                   passed, createdOrJoined, unloads, renderVars, userActions>>

\* The messages the rejoin check looks at: the recentLimit latest by timestamp.
recentMessages(log) ==
    { i \in 1..Len(log) :
        Cardinality({ j \in 1..Len(log) :
            \/ log[j].timestamp > log[i].timestamp
            \/ log[j].timestamp = log[i].timestamp /\ j < i }) < recentLimit }

\* msg.text.includes(`${userName} has left the room.`): the text of a "left"
\* event ends with the needle when its name ends with the name sought.
wasRejoining(log, name) ==
    \E i \in recentMessages(log) :
        /\ log[i].type = "event"
        /\ log[i].kind = "left"
        /\ endsWith(log[i].who, templateName(name))
        /\ log[i].timestamp > now - rejoinWindow

\* ... resumed from the getDocs of the messages (no own record was found).
handleNameFormSubmit_getMessages(c, ok) ==
    LET f == nameForm[c] IN
    /\ f.pc = "getMessages"
    /\ IF ~ok
       THEN nameFormCatch(c)
       ELSE /\ nameForm' = [nameForm EXCEPT ![c] =
                    [pc |-> "setDoc", room |-> f.room, name |-> userName[c],
                     existingUserDoc |-> f.existingUserDoc,
                     wasRejoining |-> wasRejoining(messages[f.room], userName[c])]]
            /\ UNCHANGED <<ui, nameError>>
    /\ UNCHANGED <<storeVars, clock, currentRoom, userName, isNavigating, roomError,
                   passwordError, subVars, timerVars, browserVars, typingVars,
                   verifying, roomForm, passwordForm, leaving, heartbeat, cleanup,
                   passed, createdOrJoined, unloads, renderVars, userActions>>

\* The lifecycle addDoc issued after the presence write: its collection is
\* built from the currentRoom, its text from the userName, of this moment.
lifecyclePost(c, kind) ==
    IF currentRoom[c] = NoRoom
    THEN nameFormCatch(c)
    ELSE /\ nameForm' = [nameForm EXCEPT ![c] =
                 [pc |-> "addDoc", room |-> currentRoom[c],
                  existingUserDoc |-> nameForm[c].existingUserDoc,
                  msg |-> [kind |-> kind, who |-> templateName(userName[c])]]]
         /\ UNCHANGED <<ui, nameError>>

\* ... resumed from updateDoc (own record found): joined and lastActive refreshed.
handleNameFormSubmit_updateDoc(c, ok) ==
    LET f == nameForm[c] IN
    /\ f.pc = "updateDoc"
    /\ IF ok /\ HasUser(f.room, c)
       THEN /\ users' = [users EXCEPT ![f.room][c] =
                    [@ EXCEPT !.joined = now, !.lastActive = now]]
            /\ lifecyclePost(c, "rejoined")
       ELSE nameFormCatch(c) /\ UNCHANGED users
    /\ UNCHANGED <<rooms, messages, typing, clock, currentRoom, userName, isNavigating,
                   roomError, passwordError, subVars, timerVars, browserVars,
                   typingVars, verifying, roomForm, passwordForm, leaving, heartbeat,
                   cleanup, passed, createdOrJoined, unloads, renderVars, userActions>>

\* ... resumed from setDoc: the record is created or overwritten.
handleNameFormSubmit_setDoc(c, ok) ==
    LET f == nameForm[c] IN
    /\ f.pc = "setDoc"
    /\ IF ok
       THEN /\ users' = [users EXCEPT ![f.room] =
                    Put(@, c, [name |-> f.name, joined |-> now, lastActive |-> now])]
            /\ lifecyclePost(c, IF f.wasRejoining THEN "rejoined" ELSE "joined")
       ELSE nameFormCatch(c) /\ UNCHANGED users
    /\ UNCHANGED <<rooms, messages, typing, clock, currentRoom, userName, isNavigating,
                   roomError, passwordError, subVars, timerVars, browserVars,
                   typingVars, verifying, roomForm, passwordForm, leaving, heartbeat,
                   cleanup, passed, createdOrJoined, unloads, renderVars, userActions>>

\* a handle after `if (unsubscribeX) unsubscribeX()`: called, not reset
called(handle) == [handle EXCEPT !.live = FALSE]

\* ... resumed from the lifecycle addDoc: the tail that enters the chat.
\* listenForMessages throws when currentRoom is null (collection() rejects a
\* null segment), after it has called the old unsubscribe function.
handleNameFormSubmit_addDoc(c, ok) ==
    LET f == nameForm[c] IN
    /\ f.pc = "addDoc"
    /\ IF ~ok
       THEN /\ nameFormCatch(c)
            /\ UNCHANGED <<messages, savedRoom, subVars, timerVars, renderVars>>
       ELSE /\ messages' = [messages EXCEPT ![f.room] =
                    Append(@, eventMsg(f.msg.kind, f.msg.who))]
            /\ savedRoom' = [savedRoom EXCEPT ![c] = templateRoom(currentRoom[c])]
            /\ IF currentRoom[c] = NoRoom
               THEN /\ nameFormCatch(c)
                    /\ unsubscribeMessages' =
                           [unsubscribeMessages EXCEPT ![c] = called(@)]
                    /\ isInitialMessageLoad' = [isInitialMessageLoad EXCEPT ![c] = TRUE]
                    /\ UNCHANGED <<unsubscribeUsers, unsubscribeTyping, timerVars,
                                   ownDocs, seen, lastSnapshot, messageList, messageCache, usersInRoom, deleteChat>>
               ELSE /\ ui' = [ui EXCEPT ![c] = "chat"]
                    /\ nameForm' = [nameForm EXCEPT ![c] = Idle]
                    /\ unsubscribeMessages' =
                           [unsubscribeMessages EXCEPT ![c] = Sub(currentRoom[c])]
                    /\ unsubscribeUsers' =
                           [unsubscribeUsers EXCEPT ![c] = Sub(currentRoom[c])]
                    /\ unsubscribeTyping' =
                           [unsubscribeTyping EXCEPT ![c] = Sub(currentRoom[c])]
                    /\ heartbeatInterval' =
                           [heartbeatInterval EXCEPT ![c] = currentRoom[c]]
                    /\ presenceCleanupInterval' =
                           [presenceCleanupInterval EXCEPT ![c] = currentRoom[c]]
                    /\ beforeUnloadHandler' = [beforeUnloadHandler EXCEPT ![c] = TRUE]
                    /\ isInitialMessageLoad' = [isInitialMessageLoad EXCEPT ![c] = TRUE]
                    /\ seen' = [seen EXCEPT ![c] = 0]
                    /\ lastSnapshot' = [lastSnapshot EXCEPT ![c] = <<>>]
                    /\ UNCHANGED <<nameError, ownDocs, messageList, messageCache, usersInRoom, deleteChat>>
    /\ UNCHANGED <<rooms, users, typing, clock, currentRoom, userName, isNavigating,
                   roomError, passwordError, hash, hashEvents, typingVars, verifying,
                   roomForm, passwordForm, leaving, heartbeat, cleanup, passed, createdOrJoined,
                   unloads, userActions>>

\* ---------------------------------------------------------------- leave
\* the lines of handleLeaveRoom after cleanupUserPresence has returned
leaveTail(c) ==
    /\ canAssign(c, NoRoom)
    /\ savedRoom' = [savedRoom EXCEPT ![c] = NoRoom]
    /\ hash' = hashAfter(c, NoRoom)
    /\ hashEvents' = eventsAfter(c, NoRoom, hashEvents[c])
    /\ leaving' = [leaving EXCEPT ![c] = Idle]

\* handleLeaveRoom (the leave button of the chat header) up to the deleteDoc
\* of cleanupUserPresence: typing stopped, heartbeat timer cleared.
handleLeaveRoom(c) ==
    /\ ui[c] = "chat"
    /\ CanStart(c)
    /\ leaving[c].pc = "idle"
    /\ IF currentRoom[c] = NoRoom \/ userName[c] = NoName
       THEN /\ leaveTail(c)
            /\ UNCHANGED <<typingVars, heartbeatInterval>>
       ELSE /\ stopTypingIndicator(c)
            /\ heartbeatInterval' = [heartbeatInterval EXCEPT ![c] = NoRoom]
            /\ leaving' = [leaving EXCEPT ![c] =
                    [pc |-> "deleteDoc", room |-> currentRoom[c]]]
            /\ UNCHANGED browserVars
    /\ UNCHANGED <<storeVars, clock, scriptVars, errorVars, subVars,
                   presenceCleanupInterval, beforeUnloadHandler, verifying, roomForm,
                   passwordForm, nameForm, heartbeat, cleanup, passed, createdOrJoined, unloads, renderVars>>
    /\ UserAct

\* ... resumed from deleteDoc of the own record; the "left" addDoc is built
\* from the currentRoom and userName of this moment.
handleLeaveRoom_deleteDoc(c, ok) ==
    LET f == leaving[c] IN
    /\ f.pc = "deleteDoc"
    /\ IF ok
       THEN /\ users' = [users EXCEPT ![f.room] = Remove(@, c)]
            /\ IF currentRoom[c] = NoRoom
               THEN leaveTail(c)
               ELSE /\ leaving' = [leaving EXCEPT ![c] =
                            [pc |-> "addDoc", room |-> currentRoom[c],
                             who |-> templateName(userName[c])]]
                    /\ UNCHANGED browserVars
       ELSE /\ leaveTail(c)
            /\ UNCHANGED users
    /\ UNCHANGED <<rooms, messages, typing, clock, scriptVars, errorVars, subVars,
                   timerVars, typingVars, verifying, roomForm, passwordForm, nameForm,
                   heartbeat, cleanup, passed, createdOrJoined, unloads, renderVars, userActions>>

\* ... resumed from the addDoc of the "left" event.
handleLeaveRoom_addDoc(c, ok) ==
    LET f == leaving[c] IN
    /\ f.pc = "addDoc"
    /\ messages' = IF ok
                   THEN [messages EXCEPT ![f.room] = Append(@, eventMsg("left", f.who))]
                   ELSE messages
    /\ leaveTail(c)
    /\ UNCHANGED <<rooms, users, typing, clock, scriptVars, errorVars, subVars,
                   timerVars, typingVars, verifying, roomForm, passwordForm, nameForm,
                   heartbeat, cleanup, passed, createdOrJoined, unloads, renderVars, userActions>>

\* --------------------------------------------------------------- unload
UnloadSignals == {"beforeunload", "pagehide"}
fired(c) == { unloads[c][i].signal : i \in 1..Len(unloads[c]) }

\* The handler setupBeforeUnloadHandler registers for both signals, run for
\* one of them, up to the deleteDoc of the cleanupUserPresence call it makes
\* (the browser fires beforeunload, if at all, before pagehide).
beforeUnloadHandler_fire(c, signal) ==
    /\ beforeUnloadHandler[c]
    /\ signal \notin fired(c)
    /\ signal = "beforeunload" => "pagehide" \notin fired(c)
    /\ IF currentRoom[c] # NoRoom /\ userName[c] # NoName
       THEN /\ heartbeatInterval' = [heartbeatInterval EXCEPT ![c] = NoRoom]
            /\ presenceCleanupInterval' = [presenceCleanupInterval EXCEPT ![c] = NoRoom]
            /\ stopTypingIndicator(c)
            /\ unloads' = [unloads EXCEPT ![c] =
                    Append(@, [signal |-> signal, pc |-> "deleteDoc",
                               room |-> currentRoom[c]])]
       ELSE /\ unloads' = [unloads EXCEPT ![c] =
                    Append(@, [signal |-> signal, pc |-> "skipped"])]
            /\ UNCHANGED <<heartbeatInterval, presenceCleanupInterval, typingVars>>
    /\ UNCHANGED <<storeVars, clock, scriptVars, errorVars, subVars, beforeUnloadHandler,
                   browserVars, handlerVars, passed, createdOrJoined, renderVars, userActions>>

\* ... the cleanupUserPresence call of run i resumed from its deleteDoc (where
\* the page lives long enough); the "left" addDoc is built from the
\* currentRoom and userName of this moment.
beforeUnloadHandler_deleteDoc(c, i, ok) ==
    /\ i \in 1..Len(unloads[c])
    /\ unloads[c][i].pc = "deleteDoc"
    /\ IF ok
       THEN /\ users' = [users EXCEPT ![unloads[c][i].room] = Remove(@, c)]
            /\ unloads' = [unloads EXCEPT ![c][i] =
                    IF currentRoom[c] = NoRoom
                    THEN [signal |-> @.signal, pc |-> "done"]
                    ELSE [signal |-> @.signal, pc |-> "addDoc", room |-> currentRoom[c],
                          who |-> templateName(userName[c])]]
       ELSE /\ unloads' = [unloads EXCEPT ![c][i] = [signal |-> @.signal, pc |-> "done"]]
            /\ UNCHANGED users
    /\ UNCHANGED <<rooms, messages, typing, clock, scriptVars, errorVars, subVars,
                   timerVars, browserVars, typingVars, handlerVars, passed,
                   createdOrJoined, renderVars, userActions>>

\* ... resumed from the addDoc of the "left" event.
beforeUnloadHandler_addDoc(c, i, ok) ==
    /\ i \in 1..Len(unloads[c])
    /\ unloads[c][i].pc = "addDoc"
    /\ messages' = IF ok
                   THEN [messages EXCEPT ![unloads[c][i].room] =
                           Append(@, eventMsg("left", unloads[c][i].who))]
                   ELSE messages
    /\ unloads' = [unloads EXCEPT ![c][i] = [signal |-> @.signal, pc |-> "done"]]
    /\ UNCHANGED <<rooms, users, typing, clock, scriptVars, errorVars, subVars,
                   timerVars, browserVars, typingVars, handlerVars, passed,
                   createdOrJoined, renderVars, userActions>>

\* ------------------------------------------------------------ heartbeat
\* One firing of the interval startPresenceHeartbeat sets, up to its updateDoc.
startPresenceHeartbeat(c) ==
    /\ heartbeatInterval[c] # NoRoom
    /\ CanStart(c)
    /\ heartbeat[c].pc = "idle"
    /\ IF currentRoom[c] = NoRoom \/ userName[c] = NoName
       THEN /\ heartbeatInterval' = [heartbeatInterval EXCEPT ![c] = NoRoom]
            /\ UNCHANGED heartbeat
       ELSE /\ heartbeat' = [heartbeat EXCEPT ![c] =
                    [pc |-> "updateDoc", room |-> currentRoom[c]]]
            /\ UNCHANGED heartbeatInterval
    /\ UNCHANGED <<storeVars, clock, scriptVars, errorVars, subVars,
                   presenceCleanupInterval, beforeUnloadHandler, browserVars,
                   typingVars, verifying, roomForm, passwordForm, nameForm, leaving,
                   cleanup, passed, createdOrJoined, unloads, renderVars, userActions>>

\* the write as setDoc(..., {merge: true}) would apply it: it creates the record
startPresenceHeartbeat_setDocMerge(c, ok) ==
    LET f == heartbeat[c] IN
    /\ f.pc = "updateDoc"
    /\ heartbeat' = [heartbeat EXCEPT ![c] = Idle]
    /\ users' = IF ok
                THEN [users EXCEPT ![f.room] =
                        IF HasUser(f.room, c)
                        THEN [@ EXCEPT ![c] = [@ EXCEPT !.lastActive = now]]
                        ELSE Put(@, c, [lastActive |-> now])]
                ELSE users
    /\ UNCHANGED <<rooms, messages, typing, clock, scriptVars, errorVars, subVars,
                   timerVars, browserVars, typingVars, verifying, roomForm,
                   passwordForm, nameForm, leaving, cleanup, passed, createdOrJoined, unloads, renderVars, userActions>>

\* the write with a catch block that gives up: a failure clears the interval
startPresenceHeartbeat_updateDocStops(c, ok) ==
    LET f == heartbeat[c]
        done == ok /\ HasUser(f.room, c)
    IN
    /\ f.pc = "updateDoc"
    /\ heartbeat' = [heartbeat EXCEPT ![c] = Idle]
    /\ users' = IF done
                THEN [users EXCEPT ![f.room][c] = [@ EXCEPT !.lastActive = now]]
                ELSE users
    /\ heartbeatInterval' = IF done THEN heartbeatInterval
                            ELSE [heartbeatInterval EXCEPT ![c] = NoRoom]
    /\ UNCHANGED <<rooms, messages, typing, clock, scriptVars, errorVars, subVars,
                   presenceCleanupInterval, beforeUnloadHandler, browserVars,
                   typingVars, verifying, roomForm,
                   passwordForm, nameForm, leaving, cleanup, passed, createdOrJoined, unloads, renderVars, userActions>>

\* ... resumed from updateDoc, which fails on a record that does not exist.
startPresenceHeartbeat_updateDoc(c, ok) ==
    LET f == heartbeat[c] IN
    /\ f.pc = "updateDoc"
    /\ heartbeat' = [heartbeat EXCEPT ![c] = Idle]
    /\ users' = IF ok /\ HasUser(f.room, c)
                THEN [users EXCEPT ![f.room][c] = [@ EXCEPT !.lastActive = now]]
                ELSE users
    /\ UNCHANGED <<rooms, messages, typing, clock, scriptVars, errorVars, subVars,
                   timerVars, browserVars, typingVars, verifying, roomForm,
                   passwordForm, nameForm, leaving, cleanup, passed, createdOrJoined, unloads, renderVars, userActions>>

\* ---------------------------------------------------- stale-peer reaper
\* the fallback chain read the other way round: joined before lastActive
joinedFirst(userData) ==
    IF "joined" \in DOMAIN userData THEN userData.joined
    ELSE IF "lastActive" \in DOMAIN userData THEN userData.lastActive
    ELSE 0

\* userData.lastActive?.seconds || userData.joined?.seconds || 0
lastActiveOf(userData) ==
    IF "lastActive" \in DOMAIN userData THEN userData.lastActive
    ELSE IF "joined" \in DOMAIN userData THEN userData.joined
    ELSE 0

\* a reaper without the age test: every record of the snapshot counts as stale
isListed(userData) == TRUE

isStale(userData) == now - lastActiveOf(userData) > staleThreshold

\* What getDocs hands to tab c for the users of room r: the stored records
\* with the tab's own unacknowledged writes laid over them.  While the tab's
\* heartbeat updateDoc is in flight, the lastActive of its own record is the
\* pending serverTimestamp(), which data() returns as null.
usersSnapshot(c, r) ==
    [id \in DOMAIN users[r] |->
        IF id = c /\ heartbeat[c].pc = "updateDoc" /\ heartbeat[c].room = r
        THEN Remove(users[r][id], "lastActive")
        ELSE users[r][id]]

\* the reaper as a timer that fires once (setTimeout in place of setInterval)
startPresenceCleanup_once(c) ==
    /\ presenceCleanupInterval[c] # NoRoom
    /\ CanStart(c)
    /\ cleanup[c].pc = "idle"
    /\ presenceCleanupInterval' = [presenceCleanupInterval EXCEPT ![c] = NoRoom]
    /\ cleanup' = [cleanup EXCEPT ![c] =
            IF currentRoom[c] = NoRoom THEN Idle
            ELSE [pc |-> "getDocs", room |-> currentRoom[c]]]
    /\ UNCHANGED <<storeVars, clock, scriptVars, errorVars, subVars, heartbeatInterval,
                   beforeUnloadHandler, browserVars, typingVars, verifying, roomForm,
                   passwordForm, nameForm, leaving, heartbeat, passed, createdOrJoined, unloads, renderVars, userActions>>

\* One firing of the interval startPresenceCleanup sets, up to its getDocs.
startPresenceCleanup(c) ==
    /\ presenceCleanupInterval[c] # NoRoom
    /\ CanStart(c)
    /\ cleanup[c].pc = "idle"
    /\ IF currentRoom[c] = NoRoom
       THEN /\ presenceCleanupInterval' = [presenceCleanupInterval EXCEPT ![c] = NoRoom]
            /\ UNCHANGED cleanup
       ELSE /\ cleanup' = [cleanup EXCEPT ![c] =
                    [pc |-> "getDocs", room |-> currentRoom[c]]]
            /\ UNCHANGED presenceCleanupInterval
    /\ UNCHANGED <<storeVars, clock, scriptVars, errorVars, subVars, heartbeatInterval,
                   beforeUnloadHandler, browserVars, typingVars, verifying, roomForm,
                   passwordForm, nameForm, leaving, heartbeat, passed, createdOrJoined, unloads, renderVars, userActions>>

\* ... resumed from getDocs: every stale record of the snapshot gets its own
\* async callback, which issues its deleteDoc at once and is suspended on it.
startPresenceCleanup_getDocs(c, ok) ==
    LET f == cleanup[c]
        snapshot == usersSnapshot(c, f.room)
        staleIds == { id \in DOMAIN snapshot : isStale(snapshot[id]) }
    IN
    /\ f.pc = "getDocs"
    /\ cleanup' = [cleanup EXCEPT ![c] =
            IF ok /\ staleIds # {}
            THEN [pc |-> "callbacks", room |-> f.room,
                  stale |-> [id \in staleIds |-> snapshot[id].name],
                  posts |-> <<>>]
            ELSE Idle]
    /\ UNCHANGED <<storeVars, clock, scriptVars, errorVars, subVars, timerVars,
                   browserVars, typingVars, verifying, roomForm, passwordForm,
                   nameForm, leaving, heartbeat, passed, createdOrJoined, unloads, renderVars, userActions>>

\* the callbacks of one reaper run, with the callback of record id finished
callbackDone(f, id) ==
    IF DOMAIN f.stale \cup DOMAIN f.posts = {id} THEN Idle
    ELSE [f EXCEPT !.stale = Remove(@, id), !.posts = Remove(@, id)]

\* ... the callback of record id resumed from its deleteDoc, which succeeds
\* on a record already gone.  When the record had a name the "disconnected"
\* addDoc is issued, into the currentRoom of this moment (collection() throws
\* on a null currentRoom, which ends the callback).
startPresenceCleanup_deleteDoc(c, id, ok) ==
    LET f == cleanup[c] IN
    /\ f.pc = "callbacks"
    /\ id \in DOMAIN f.stale
    /\ users' = IF ok THEN [users EXCEPT ![f.room] = Remove(@, id)] ELSE users
    /\ cleanup' = [cleanup EXCEPT ![c] =
            IF ok /\ f.stale[id] # NoName /\ currentRoom[c] # NoRoom
            THEN [f EXCEPT !.stale = Remove(@, id),
                           !.posts = Put(@, id, [room |-> currentRoom[c],
                                                  who |-> f.stale[id]])]
            ELSE callbackDone(f, id)]
    /\ UNCHANGED <<rooms, messages, typing, clock, scriptVars, errorVars, subVars,
                   timerVars, browserVars, typingVars, verifying, roomForm,
                   passwordForm, nameForm, leaving, heartbeat, passed, createdOrJoined, unloads, renderVars, userActions>>

\* ... the callback of record id resumed from its addDoc.
startPresenceCleanup_addDoc(c, id, ok) ==
    LET f == cleanup[c] IN
    /\ f.pc = "callbacks"
    /\ id \in DOMAIN f.posts
    /\ messages' =
          IF ok
          THEN [messages EXCEPT ![f.posts[id].room] =
                  Append(@, eventMsg("disconnected", f.posts[id].who))]
          ELSE messages
    /\ cleanup' = [cleanup EXCEPT ![c] = callbackDone(f, id)]
    /\ UNCHANGED <<rooms, users, typing, clock, scriptVars, errorVars, subVars,
                   timerVars, browserVars, typingVars, verifying, roomForm,
                   passwordForm, nameForm, leaving, heartbeat, passed, createdOrJoined, unloads, renderVars, userActions>>

\* ------------------------------------------------------------- messages
\* What a snapshot holds for the timestamp of a document whose write the
\* server has not acknowledged (null; `a.timestamp?.seconds || 0` sorts it as 0).
pendingTimestamp == 0

\* handleMessageFormSubmit up to its addDoc (a non-empty text is assumed):
\* the document exists in the local cache from the call on.
handleMessageFormSubmit(c) ==
    /\ ui[c] = "chat"
    /\ currentRoom[c] # NoRoom /\ userName[c] # NoName
    /\ stopTypingIndicator(c)
    /\ ownDocs' = [ownDocs EXCEPT ![c] =
            Append(@, [id |-> <<c, userActions>>, room |-> templateRoom(currentRoom[c]),
                       who |-> userName[c], pc |-> "addDoc"])]
    /\ UNCHANGED <<storeVars, clock, scriptVars, errorVars, subVars, timerVars,
                   browserVars, handlerVars, passed, createdOrJoined, unloads, seen,
                   lastSnapshot, isInitialMessageLoad, messageList, messageCache, usersInRoom, deleteChat>>
    /\ UserAct

\* ... the addDoc of document i resolves: the server appends it to the log
\* with its own time, or rejects it and the local cache drops it.
handleMessageFormSubmit_addDoc(c, i, ok) ==
    /\ i \in 1..Len(ownDocs[c])
    /\ ownDocs[c][i].pc = "addDoc"
    /\ IF ok
       THEN /\ messages' = [messages EXCEPT ![ownDocs[c][i].room] =
                    Append(@, [type |-> "text", kind |-> "text", who |-> ownDocs[c][i].who,
                               senderId |-> c, timestamp |-> now,
                               id |-> ownDocs[c][i].id])]
            /\ ownDocs' = [ownDocs EXCEPT ![c][i].pc = "done"]
       ELSE /\ ownDocs' = [ownDocs EXCEPT ![c] =
                    SubSeq(@, 1, i - 1) \o SubSeq(@, i + 1, Len(@))]
            /\ UNCHANGED messages
    /\ UNCHANGED <<rooms, users, typing, clock, scriptVars, errorVars, subVars,
                   timerVars, browserVars, typingVars, handlerVars, passed,
                   createdOrJoined, unloads, seen, lastSnapshot, isInitialMessageLoad,
                   messageList, messageCache, usersInRoom, deleteChat, userActions>>

\* the document id of a log entry: the id its sender gave it, and for an
\* entry posted by a handler one made of what tells it from the others
entryId(m) ==
    IF "id" \in DOMAIN m THEN m.id ELSE <<"system", m.kind, m.who, m.timestamp>>

\* the document id of entry i of the log of room r
docId(r, i) == entryId(messages[r][i])

docIds(docs) == { docs[i].id : i \in 1..Len(docs) }

\* The result of the query orderBy('timestamp', 'asc') for the listener of c
\* once the server has sent it the first k entries of the log of r: those
\* entries, then the documents of c the server has not acknowledged to it.
querySnapshot(c, r, k) ==
    LET acked == { docId(r, i) : i \in 1..k }
        local == SelectSeq(ownDocs[c], LAMBDA d : d.room = r /\ d.id \notin acked)
        \* the deletes of a batch c has committed and the server has not
        \* acknowledged are applied to the local view at once
        batch == IF deleteChat[c].pc = "commit" /\ deleteChat[c].room = r
                 THEN { entryId(deleteChat[c].docs[i]) : i \in 1..Len(deleteChat[c].docs) }
                 ELSE {}
        server == [i \in 1..k |->
                     [id |-> docId(r, i), timestamp |-> messages[r][i].timestamp]]
    IN  SelectSeq(server, LAMBDA d : d.id \notin batch)
        \o [i \in 1..Len(local) |-> [id |-> local[i].id, timestamp |-> pendingTimestamp]]

\* messages.sort((a, b) => (a.timestamp?.seconds || 0) - (b.timestamp?.seconds || 0)),
\* a stable sort
RECURSIVE sortMessages(_)
sortMessages(docs) ==
    IF docs = <<>> THEN <<>>
    ELSE LET d == docs[Len(docs)]
             front == sortMessages(SubSeq(docs, 1, Len(docs) - 1))
             before == SelectSeq(front, LAMBDA x : x.timestamp <= d.timestamp)
             after == SelectSeq(front, LAMBDA x : x.timestamp > d.timestamp)
         IN  before \o <<d>> \o after

\* renderMessages(messages, 'added', forceScroll): the list of the page and
\* the ids of messageCache after the call
renderMessages(list, cache, docs, forceScroll) ==
    LET kept == IF forceScroll THEN <<>> ELSE list
        keptIds == IF forceScroll THEN {} ELSE cache
        fresh == SelectSeq(docs, LAMBDA d : d.id \notin keptIds)
    IN  [list |-> kept \o fresh, cache |-> keptIds \cup docIds(fresh)]

\* The snapshot callback of listenForMessages, run for the snapshot that
\* reflects the first k entries of the log.
listenForMessages_onSnapshot(c, k) ==
    LET r == unsubscribeMessages[c].room
        old == lastSnapshot[c]
        new == querySnapshot(c, r, k)
        added == SelectSeq(new, LAMBDA d : d.id \notin docIds(old))
        modified == { d \in { new[i] : i \in 1..Len(new) } :
                        \E j \in 1..Len(old) :
                            old[j].id = d.id /\ old[j].timestamp # d.timestamp }
        removed == docIds(old) \ docIds(new)
        retimed == [i \in 1..Len(messageList[c]) |->
                      IF \E d \in modified : d.id = messageList[c][i].id /\ d.id[1] = c
                      THEN CHOOSE d \in modified : d.id = messageList[c][i].id
                      ELSE messageList[c][i]]
        \* a 'removed' change whose element is on the page takes the element
        \* and its messageCache entry away (after the fade-out of 300 ms)
        list == SelectSeq(retimed, LAMBDA d : d.id \notin removed)
        cache == messageCache[c] \ (removed \cap docIds(messageList[c]))
        rendered == renderMessages(list, cache, sortMessages(added),
                                   isInitialMessageLoad[c])
        reflected == IF seen[c] < Len(messages[r]) THEN seen[c] ELSE Len(messages[r])
    IN  /\ unsubscribeMessages[c].live
        /\ r \in Rooms
        /\ k \in reflected..Len(messages[r])
        \* the first snapshot of a listener is held back until the server has
        \* answered the query
        /\ isInitialMessageLoad[c] => k = Len(messages[r])
        /\ isInitialMessageLoad[c] \/ new # old
        /\ messageList' = [messageList EXCEPT ![c] =
                IF added # <<>> THEN rendered.list ELSE list]
        /\ messageCache' = [messageCache EXCEPT ![c] =
                IF added # <<>> THEN rendered.cache ELSE cache]
        /\ isInitialMessageLoad' = [isInitialMessageLoad EXCEPT ![c] = FALSE]
        /\ lastSnapshot' = [lastSnapshot EXCEPT ![c] = new]
        /\ seen' = [seen EXCEPT ![c] = k]
        /\ UNCHANGED <<storeVars, clock, scriptVars, errorVars, subVars, timerVars,
                       browserVars, typingVars, handlerVars, passed, createdOrJoined,
                       unloads, ownDocs, usersInRoom, deleteChat, userActions>>

\* The snapshot callback of listenForUsers: usersInRoom is cleared and filled
\* with the Presence Records of the snapshot.
listenForUsers_onSnapshot(c) ==
    /\ unsubscribeUsers[c].live
    /\ unsubscribeUsers[c].room \in Rooms
    /\ usersInRoom[c] # users[unsubscribeUsers[c].room]
    /\ usersInRoom' = [usersInRoom EXCEPT ![c] = users[unsubscribeUsers[c].room]]
    /\ UNCHANGED <<storeVars, clock, scriptVars, errorVars, subVars, timerVars,
                   browserVars, typingVars, handlerVars, passed, createdOrJoined,
                   unloads, ownDocs, seen, lastSnapshot, isInitialMessageLoad,
                   messageList, messageCache, deleteChat, userActions>>

\* ---------------------------------------------------------------- clock
Tick ==
    /\ clock < MaxTicks
    /\ clock' = clock + 1
    /\ UNCHANGED <<storeVars, scriptVars, errorVars, subVars, timerVars, browserVars,
                   typingVars, handlerVars, passed, createdOrJoined, unloads, renderVars, userActions>>

\* ------------------------------------------------------- clear history
\* the log without the documents of `docs` (a document that has gone is
\* skipped: deleting it again changes nothing)
RECURSIVE removeDocs(_, _)
removeDocs(log, docs) ==
    IF docs = <<>> THEN log
    ELSE LET d == Head(docs)
             at == { i \in 1..Len(log) : log[i] = d }
             i == CHOOSE i \in at : \A j \in at : i <= j
         IN  IF at = {} THEN removeDocs(log, Tail(docs))
             ELSE removeDocs(SubSeq(log, 1, i - 1) \o SubSeq(log, i + 1, Len(log)),
                             Tail(docs))

\* handleDeleteChat, the confirm button of the delete dialog, up to its
\* getDocs; the collection path is built from currentRoom here.
handleDeleteChat(c) ==
    /\ ui[c] = "chat"
    /\ currentRoom[c] # NoRoom
    /\ deleteChat[c].pc = "idle"
    /\ ui' = [ui EXCEPT ![c] = "loading"]
    /\ deleteChat' = [deleteChat EXCEPT ![c] = [pc |-> "getDocs", room |-> currentRoom[c]]]
    /\ UNCHANGED <<storeVars, clock, currentRoom, userName, isNavigating, errorVars,
                   subVars, timerVars, browserVars, typingVars, handlerVars, passed,
                   createdOrJoined, unloads, ownDocs, seen, lastSnapshot,
                   isInitialMessageLoad, messageList, messageCache, usersInRoom>>
    /\ UserAct

\* ... resumed from getDocs: nothing to delete, or the batch of deletes is
\* built from the documents read; a failure is logged.  Every way out shows
\* the chat screen.
handleDeleteChat_getDocs(c, ok) ==
    LET f == deleteChat[c] IN
    /\ f.pc = "getDocs"
    /\ IF ok /\ messages[f.room] # <<>>
       THEN /\ deleteChat' = [deleteChat EXCEPT ![c] =
                    [pc |-> "commit", room |-> f.room, docs |-> messages[f.room]]]
            /\ UNCHANGED ui
       ELSE /\ deleteChat' = [deleteChat EXCEPT ![c] = Idle]
            /\ ui' = [ui EXCEPT ![c] = "chat"]
    /\ UNCHANGED <<storeVars, clock, currentRoom, userName, isNavigating, errorVars,
                   subVars, timerVars, browserVars, typingVars, handlerVars, passed,
                   createdOrJoined, unloads, ownDocs, seen, lastSnapshot,
                   isInitialMessageLoad, messageList, messageCache, usersInRoom, userActions>>

\* A commit whose batch holds the Presence Records of the room as well.
handleDeleteChat_commitWithUsers(c, ok) ==
    LET f == deleteChat[c] IN
    /\ f.pc = "commit"
    /\ messages' = [messages EXCEPT ![f.room] = removeDocs(@, f.docs)]
    /\ users' = [users EXCEPT ![f.room] = <<>>]
    /\ messageList' = [messageList EXCEPT ![c] = <<>>]
    /\ deleteChat' = [deleteChat EXCEPT ![c] = [pc |-> "addDoc", room |-> f.room]]
    /\ UNCHANGED <<rooms, typing, clock, scriptVars, errorVars, subVars, timerVars,
                   browserVars, typingVars, handlerVars, passed, createdOrJoined, unloads,
                   ownDocs, seen, lastSnapshot, isInitialMessageLoad, userActions, messageCache, usersInRoom>>

\* ... resumed from batch.commit: the documents read are gone from the log,
\* the list on the page is emptied and the event is posted.
handleDeleteChat_commit(c, ok) ==
    LET f == deleteChat[c] IN
    /\ f.pc = "commit"
    /\ IF ok
       THEN /\ messages' = [messages EXCEPT ![f.room] = removeDocs(@, f.docs)]
            /\ messageList' = [messageList EXCEPT ![c] = <<>>]
            /\ deleteChat' = [deleteChat EXCEPT ![c] = [pc |-> "addDoc", room |-> f.room]]
            /\ UNCHANGED ui
       ELSE /\ deleteChat' = [deleteChat EXCEPT ![c] = Idle]
            /\ ui' = [ui EXCEPT ![c] = "chat"]
            /\ UNCHANGED <<messages, messageList>>
    /\ UNCHANGED <<rooms, users, typing, clock, currentRoom, userName, isNavigating,
                   errorVars, subVars, timerVars, browserVars, typingVars, handlerVars,
                   passed, createdOrJoined, unloads, ownDocs, seen, lastSnapshot,
                   isInitialMessageLoad, userActions, messageCache, usersInRoom>>

\* ... resumed from the addDoc of "<userName> cleared the chat history.".
handleDeleteChat_addDoc(c, ok) ==
    LET f == deleteChat[c] IN
    /\ f.pc = "addDoc"
    /\ messages' = IF ok
                   THEN [messages EXCEPT ![f.room] = Append(@, eventMsg("cleared", userName[c]))]
                   ELSE messages
    /\ deleteChat' = [deleteChat EXCEPT ![c] = Idle]
    /\ ui' = [ui EXCEPT ![c] = "chat"]
    /\ UNCHANGED <<rooms, users, typing, clock, currentRoom, userName, isNavigating,
                   errorVars, subVars, timerVars, browserVars, typingVars, handlerVars,
                   passed, createdOrJoined, unloads, ownDocs, seen, lastSnapshot,
                   isInitialMessageLoad, messageList, messageCache, usersInRoom, userActions>>

\* The timers of the page run on the millisecond clock: time passes in
\* steps, and never past the instant at which an armed timer is due.
TickMs ==
    /\ ms < MaxMs
    /\ \A c \in Clients :
          /\ typingDebounceTimer[c] => ms < debounceDue[c]
          /\ typingTimeout[c] => ms < timeoutDue[c]
    /\ ms' = ms + MsStep
    /\ UNCHANGED <<storeVars, clock, scriptVars, errorVars, subVars, timerVars, browserVars,
                   isTyping, typingDebounceTimer, typingTimeout, typingOps, debounceDue,
                   timeoutDue, keystrokes, typingUsers, handlerVars, passed,
                   createdOrJoined, unloads, renderVars, userActions>>

\* ------------------------------------------------------ typing (start side)
\* handleTypingIndicator: an input event in the message box (re)arms the
\* one-second debounce timer.
startsBurst(c) ==
    ~keystrokes[c].any \/ ms - keystrokes[c].last >= debounceDelay

handleTypingIndicator(c) ==
    /\ ui[c] = "chat"
    /\ currentRoom[c] # NoRoom /\ userName[c] # NoName
    /\ Len(typingOps[c]) < MaxTypingOps
    /\ typingDebounceTimer' = [typingDebounceTimer EXCEPT ![c] = TRUE]
    /\ debounceDue' = [debounceDue EXCEPT ![c] = ms + debounceDelay]
    /\ keystrokes' = [keystrokes EXCEPT ![c] =
          IF startsBurst(c)
          THEN [any |-> TRUE, last |-> ms, typingAtStart |-> isTyping[c], writes |-> 0]
          ELSE [@ EXCEPT !.last = ms]]
    /\ UNCHANGED <<storeVars, clock, scriptVars, errorVars, subVars, timerVars,
                   browserVars, isTyping, typingTimeout, typingOps, ms, timeoutDue,
                   typingUsers, handlerVars, passed, createdOrJoined, unloads, renderVars>>
    /\ UserAct

\* The debounce timer fires: the first firing of an episode issues the
\* Typing Record write; every firing restarts the 3-second inactivity timer.
\* doc() throws on a null currentRoom, after isTyping has been set.
handleTypingIndicator_debounce(c) ==
    /\ typingDebounceTimer[c]
    /\ ms >= debounceDue[c]
    /\ typingDebounceTimer' = [typingDebounceTimer EXCEPT ![c] = FALSE]
    /\ isTyping' = [isTyping EXCEPT ![c] = TRUE]
    /\ IF ~isTyping[c] /\ currentRoom[c] = NoRoom
       THEN UNCHANGED <<typingOps, typingTimeout, timeoutDue, keystrokes>>
       ELSE /\ typingOps' = IF isTyping[c] THEN typingOps
                  ELSE [typingOps EXCEPT ![c] =
                          Append(@, [op |-> "set", room |-> currentRoom[c],
                                     name |-> userName[c]])]
            /\ keystrokes' = IF isTyping[c] THEN keystrokes
                  ELSE [keystrokes EXCEPT ![c].writes = @ + 1]
            /\ typingTimeout' = [typingTimeout EXCEPT ![c] = TRUE]
            /\ timeoutDue' = [timeoutDue EXCEPT ![c] = ms + inactivityDelay]
    /\ UNCHANGED <<ms, debounceDue, typingUsers>>
    /\ UNCHANGED <<storeVars, clock, scriptVars, errorVars, subVars, timerVars,
                   browserVars, handlerVars, passed, createdOrJoined, unloads, renderVars, userActions>>

\* The inactivity timer fires, or the message box loses focus.
stopTypingIndicator_timeout(c) ==
    /\ typingTimeout[c]
    /\ ms >= timeoutDue[c]
    /\ IF currentRoom[c] = NoRoom
       THEN /\ typingTimeout' = [typingTimeout EXCEPT ![c] = FALSE]
            /\ UNCHANGED <<isTyping, typingDebounceTimer, typingOps, timedVars,
                           typingUsers>>
       ELSE stopTypingIndicator(c)
    /\ UNCHANGED <<storeVars, clock, scriptVars, errorVars, subVars, timerVars,
                   browserVars, handlerVars, passed, createdOrJoined, unloads, renderVars, userActions>>

stopTypingIndicator_blur(c) ==
    /\ ui[c] = "chat"
    /\ typingDebounceTimer[c] \/ isTyping[c]
    /\ stopTypingIndicator(c)
    /\ UNCHANGED <<storeVars, clock, scriptVars, errorVars, subVars, timerVars,
                   browserVars, handlerVars, passed, createdOrJoined, unloads, renderVars>>
    /\ UserAct

\* The store applies the oldest typing write of c (the SDK sends the writes
\* of one client in issue order); a failure is logged and dropped.
typingWrite(c, ok) ==
    LET w == Head(typingOps[c]) IN
    /\ typingOps[c] # <<>>
    /\ typingOps' = [typingOps EXCEPT ![c] = Tail(@)]
    /\ typing' =
          IF ~ok THEN typing
          ELSE IF w.op = "set"
          THEN [typing EXCEPT ![w.room] =
                  Put(@, c, [name |-> w.name, timestamp |-> now])]
          ELSE [typing EXCEPT ![w.room] = Remove(@, c)]
    /\ UNCHANGED <<rooms, users, messages, clock, scriptVars, errorVars, subVars,
                   timerVars, browserVars, isTyping, typingDebounceTimer, typingTimeout,
                   timedVars, typingUsers, handlerVars, passed, createdOrJoined, unloads,
                   renderVars, userActions>>

\* ------------------------------------------------------ typing (reader)
\* the entries the callback of listenForTyping adds to typingUsers from a
\* snapshot: every record but the client's own whose timestamp is less than
\* typingFresh seconds old at this moment
typingFresh == 5
recentTypers(c, snapshot) ==
    { [id |-> id, name |-> snapshot[id].name, timestamp |-> snapshot[id].timestamp] :
        id \in { x \in DOMAIN snapshot \ {c} : now - snapshot[x].timestamp < typingFresh } }

\* The listener of the Typing Records delivers a snapshot: the first one of a
\* subscription, and one after every change of the collection.  typingUsers
\* is cleared and filled again, and the indicator is rendered from it.
listenForTyping_onSnapshot(c) ==
    /\ unsubscribeTyping[c].live
    /\ unsubscribeTyping[c].room \in Rooms
    /\ LET r == unsubscribeTyping[c].room IN
       /\ typingUsers[c].fresh \/ typingUsers[c].snapshot # typing[r]
       /\ typingUsers' = [typingUsers EXCEPT ![c] =
              [fresh |-> FALSE, snapshot |-> typing[r],
               shown |-> recentTypers(c, typing[r])]]
    /\ UNCHANGED <<storeVars, clock, scriptVars, errorVars, subVars, timerVars,
                   browserVars, isTyping, typingDebounceTimer, typingTimeout, typingOps,
                   timedVars, handlerVars, passed, createdOrJoined, unloads, renderVars,
                   userActions>>

\* -------------------------------------------------------------- src/app.js
\* The earlier client.  It keeps no session storage, heartbeat, reaper or
\* typing state; its spinner is an overlay that leaves the screen showUI
\* selected in place, so ui holds that screen.  Collection and document paths
\* are template strings: a null currentRoom prints as "null".
app_statusMsg(kind, who) ==
    [type |-> "status", kind |-> kind, who |-> who, timestamp |-> now]

\* handleHashChange up to its getDoc: the listeners are unsubscribed (the
\* handles keep their functions), then the fragment is routed.
app_handleHashChange(c) ==
    /\ hashEvents[c] > 0
    /\ isNavigating[c] \/ hash[c] = NoRoom \/ CanStart(c)
    /\ hashEvents' = [hashEvents EXCEPT ![c] = @ - 1]
    /\ IF isNavigating[c]
       THEN /\ isNavigating' = [isNavigating EXCEPT ![c] = FALSE]
            /\ UNCHANGED <<ui, currentRoom, unsubscribeMessages, unsubscribeUsers,
                           verifying>>
       ELSE /\ unsubscribeMessages' = [unsubscribeMessages EXCEPT ![c] = called(@)]
            /\ unsubscribeUsers' = [unsubscribeUsers EXCEPT ![c] = called(@)]
            /\ UNCHANGED isNavigating
            /\ IF hash[c] # NoRoom
               THEN /\ currentRoom' = [currentRoom EXCEPT ![c] = hash[c]]
                    /\ verifying' = [verifying EXCEPT ![c] = @ \cup {hash[c]}]
                    /\ UNCHANGED ui
               ELSE /\ currentRoom' = [currentRoom EXCEPT ![c] = NoRoom]
                    /\ ui' = [ui EXCEPT ![c] = "room"]
                    /\ UNCHANGED verifying
    /\ UNCHANGED <<storeVars, clock, userName, errorVars, unsubscribeTyping, timerVars,
                   hash, savedRoom, typingVars, roomForm, passwordForm, nameForm,
                   leaving, heartbeat, cleanup, passed, createdOrJoined, unloads, renderVars, userActions>>

\* ... resumed from the getDoc of room r.
app_handleHashChange_getDoc(c, r, ok) ==
    /\ r \in verifying[c]
    /\ verifying' = [verifying EXCEPT ![c] = @ \ {r}]
    /\ IF ok /\ Exists(r)
       THEN /\ ui' = [ui EXCEPT ![c] = "password"]
            /\ UNCHANGED <<hash, hashEvents>>
       ELSE /\ canAssign(c, NoRoom)
            /\ hash' = hashAfter(c, NoRoom)
            /\ hashEvents' = eventsAfter(c, NoRoom, hashEvents[c])
            /\ UNCHANGED ui
    /\ UNCHANGED <<storeVars, clock, currentRoom, userName, isNavigating, errorVars,
                   subVars, timerVars, savedRoom, typingVars, roomForm, passwordForm,
                   nameForm, leaving, heartbeat, cleanup, passed, createdOrJoined, unloads, renderVars, userActions>>

\* the catch branch of handleNameFormSubmit
app_nameFormCatch(c) ==
    /\ nameError' = [nameError EXCEPT ![c] = "An error occurred while joining."]
    /\ nameForm' = [nameForm EXCEPT ![c] = Idle]

\* showUI('chat'); listenForMessages(); listenForUsers(): each listener
\* returns at once on a null currentRoom, else overwrites its handle.
app_enterChat(c) ==
    /\ ui' = [ui EXCEPT ![c] = "chat"]
    /\ nameForm' = [nameForm EXCEPT ![c] = Idle]
    /\ IF currentRoom[c] = NoRoom
       THEN UNCHANGED <<unsubscribeMessages, unsubscribeUsers>>
       ELSE /\ unsubscribeMessages' =
                   [unsubscribeMessages EXCEPT ![c] = Sub(currentRoom[c])]
            /\ unsubscribeUsers' = [unsubscribeUsers EXCEPT ![c] = Sub(currentRoom[c])]

\* handleNameFormSubmit up to its getDocs of the room's users.
app_handleNameFormSubmit(c, nameInput) ==
    LET name == trim(nameInput) IN
    /\ ui[c] = "name"
    /\ CanStart(c)
    /\ nameForm[c].pc = "idle"
    /\ name # <<>>
    /\ nameError' = [nameError EXCEPT ![c] = ""]
    /\ nameForm' = [nameForm EXCEPT ![c] =
            [pc |-> "getDocs", name |-> name, room |-> templateRoom(currentRoom[c])]]
    /\ UNCHANGED <<storeVars, clock, scriptVars, roomError, passwordError, subVars,
                   timerVars, browserVars, typingVars, verifying, roomForm,
                   passwordForm, leaving, heartbeat, cleanup, passed, createdOrJoined, unloads, renderVars>>
    /\ UserAct

\* ... resumed from getDocs: the scan, then either the rejection, the setDoc
\* of a new record, or (own record found) the chat at once.
app_handleNameFormSubmit_getDocs(c, ok) ==
    LET f == nameForm[c]
        snapshot == users[f.room]
    IN
    /\ f.pc = "getDocs"
    /\ IF ~ok \/ scanThrows(snapshot)
       THEN app_nameFormCatch(c) /\ UNCHANGED <<ui, userName, subVars>>
       ELSE IF nameIsTaken(snapshot, c, f.name)
       THEN /\ nameError' = [nameError EXCEPT ![c] =
                    "This name is already taken by another active user. Please choose another."]
            /\ nameForm' = [nameForm EXCEPT ![c] = Idle]
            /\ UNCHANGED <<ui, userName, subVars>>
       ELSE /\ userName' = [userName EXCEPT ![c] = f.name]
            /\ UNCHANGED <<nameError, unsubscribeTyping>>
            /\ IF existingUserDoc(snapshot, c, f.name)
               THEN app_enterChat(c)
               ELSE /\ nameForm' = [nameForm EXCEPT ![c] =
                            [pc |-> "setDoc", name |-> f.name,
                             room |-> templateRoom(currentRoom[c]),
                             existingUserDoc |-> FALSE]]
                    /\ UNCHANGED <<ui, unsubscribeMessages, unsubscribeUsers>>
    /\ UNCHANGED <<storeVars, clock, currentRoom, isNavigating, roomError,
                   passwordError, timerVars, browserVars, typingVars, verifying,
                   roomForm, passwordForm, leaving, heartbeat, cleanup, passed, createdOrJoined, unloads, renderVars,
                   userActions>>

\* ... resumed from setDoc: the record {name, joined} is written; the "joined"
\* addDoc is built from the currentRoom and userName of this moment.
app_handleNameFormSubmit_setDoc(c, ok) ==
    LET f == nameForm[c] IN
    /\ f.pc = "setDoc"
    /\ IF ok
       THEN /\ users' = [users EXCEPT ![f.room] =
                    Put(@, c, [name |-> f.name, joined |-> now])]
            /\ nameForm' = [nameForm EXCEPT ![c] =
                    [pc |-> "addDoc", room |-> templateRoom(currentRoom[c]),
                     existingUserDoc |-> f.existingUserDoc,
                     msg |-> [kind |-> "joined", who |-> templateName(userName[c])]]]
            /\ UNCHANGED nameError
       ELSE app_nameFormCatch(c) /\ UNCHANGED users
    /\ UNCHANGED <<rooms, messages, typing, clock, scriptVars, roomError,
                   passwordError, subVars, timerVars, browserVars, typingVars,
                   verifying, roomForm, passwordForm, leaving, heartbeat, cleanup,
                   passed, createdOrJoined, unloads, renderVars, userActions>>

\* ... resumed from the addDoc of the "joined" message.
app_handleNameFormSubmit_addDoc(c, ok) ==
    LET f == nameForm[c] IN
    /\ f.pc = "addDoc"
    /\ IF ok
       THEN /\ messages' = [messages EXCEPT ![f.room] =
                    Append(@, app_statusMsg(f.msg.kind, f.msg.who))]
            /\ app_enterChat(c)
            /\ UNCHANGED nameError
       ELSE /\ app_nameFormCatch(c)
            /\ UNCHANGED <<messages, ui, unsubscribeMessages, unsubscribeUsers>>
    /\ UNCHANGED <<rooms, users, typing, clock, currentRoom, userName, isNavigating,
                   roomError, passwordError, unsubscribeTyping, timerVars, browserVars,
                   typingVars, verifying, roomForm, passwordForm, leaving, heartbeat,
                   cleanup, passed, createdOrJoined, unloads, renderVars, userActions>>

\* the finally block of handleLeaveRoom
app_leaveFinally(c) ==
    /\ canAssign(c, NoRoom)
    /\ hash' = hashAfter(c, NoRoom)
    /\ hashEvents' = eventsAfter(c, NoRoom, hashEvents[c])
    /\ userName' = [userName EXCEPT ![c] = NoName]
    /\ leaving' = [leaving EXCEPT ![c] = Idle]

\* handleLeaveRoom up to its addDoc: the "left" message is posted first.
app_handleLeaveRoom(c) ==
    /\ ui[c] = "chat"
    /\ CanStart(c)
    /\ leaving[c].pc = "idle"
    /\ IF currentRoom[c] = NoRoom \/ userName[c] = NoName
       THEN /\ canAssign(c, NoRoom)
            /\ hash' = hashAfter(c, NoRoom)
            /\ hashEvents' = eventsAfter(c, NoRoom, hashEvents[c])
            /\ UNCHANGED leaving
       ELSE /\ leaving' = [leaving EXCEPT ![c] =
                    [pc |-> "addDoc", room |-> currentRoom[c], who |-> userName[c]]]
            /\ UNCHANGED <<hash, hashEvents>>
    /\ UNCHANGED <<storeVars, clock, scriptVars, errorVars, subVars, timerVars,
                   savedRoom, typingVars, verifying, roomForm, passwordForm, nameForm,
                   heartbeat, cleanup, passed, createdOrJoined, unloads, renderVars>>
    /\ UserAct

\* ... resumed from the addDoc; the deleteDoc of the own record is built
\* from the currentRoom of this moment.
app_handleLeaveRoom_addDoc(c, ok) ==
    LET f == leaving[c] IN
    /\ f.pc = "addDoc"
    /\ IF ok
       THEN /\ messages' = [messages EXCEPT ![f.room] =
                    Append(@, app_statusMsg("left", f.who))]
            /\ leaving' = [leaving EXCEPT ![c] =
                    [pc |-> "deleteDoc", room |-> templateRoom(currentRoom[c])]]
            /\ UNCHANGED <<hash, hashEvents, userName>>
       ELSE /\ app_leaveFinally(c)
            /\ UNCHANGED messages
    /\ UNCHANGED <<rooms, users, typing, clock, ui, currentRoom, isNavigating,
                   errorVars, subVars, timerVars, savedRoom, typingVars, verifying,
                   roomForm, passwordForm, nameForm, heartbeat, cleanup, passed, createdOrJoined, unloads, renderVars,
                   userActions>>

\* ... resumed from the deleteDoc.
app_handleLeaveRoom_deleteDoc(c, ok) ==
    LET f == leaving[c] IN
    /\ f.pc = "deleteDoc"
    /\ users' = IF ok THEN [users EXCEPT ![f.room] = Remove(@, c)] ELSE users
    /\ app_leaveFinally(c)
    /\ UNCHANGED <<rooms, messages, typing, clock, ui, currentRoom, isNavigating,
                   errorVars, subVars, timerVars, savedRoom, typingVars, verifying,
                   roomForm, passwordForm, nameForm, heartbeat, cleanup, passed, createdOrJoined, unloads, renderVars,
                   userActions>>

\* ------------------------------------------------------- specifications
\* handleDeleteChat of src/app.js: the same reads and the same batch of
\* deletes behind a loading overlay; the screen stays and no event is posted.
app_handleDeleteChat(c) ==
    /\ ui[c] = "chat"
    /\ currentRoom[c] # NoRoom
    /\ deleteChat[c].pc = "idle"
    /\ deleteChat' = [deleteChat EXCEPT ![c] = [pc |-> "app_getDocs", room |-> currentRoom[c]]]
    /\ UNCHANGED <<storeVars, clock, scriptVars, errorVars, subVars, timerVars,
                   browserVars, typingVars, handlerVars, passed, createdOrJoined, unloads,
                   ownDocs, seen, lastSnapshot, isInitialMessageLoad, messageList, messageCache, usersInRoom>>
    /\ UserAct

app_handleDeleteChat_getDocs(c, ok) ==
    LET f == deleteChat[c] IN
    /\ f.pc = "app_getDocs"
    /\ deleteChat' = [deleteChat EXCEPT ![c] =
            IF ok /\ messages[f.room] # <<>>
            THEN [pc |-> "app_commit", room |-> f.room, docs |-> messages[f.room]]
            ELSE Idle]
    /\ UNCHANGED <<storeVars, clock, scriptVars, errorVars, subVars, timerVars,
                   browserVars, typingVars, handlerVars, passed, createdOrJoined, unloads,
                   ownDocs, seen, lastSnapshot, isInitialMessageLoad, messageList, messageCache, usersInRoom,
                   userActions>>

app_handleDeleteChat_commit(c, ok) ==
    LET f == deleteChat[c] IN
    /\ f.pc = "app_commit"
    /\ deleteChat' = [deleteChat EXCEPT ![c] = Idle]
    /\ IF ok
       THEN /\ messages' = [messages EXCEPT ![f.room] = removeDocs(@, f.docs)]
            /\ messageList' = [messageList EXCEPT ![c] = <<>>]
       ELSE UNCHANGED <<messages, messageList>>
    /\ UNCHANGED <<rooms, users, typing, clock, scriptVars, errorVars, subVars,
                   timerVars, browserVars, typingVars, handlerVars, passed,
                   createdOrJoined, unloads, ownDocs, seen, lastSnapshot,
                   isInitialMessageLoad, userActions, messageCache, usersInRoom>>

\* Outcomes of a store operation: TRUE it succeeds, FALSE it fails.
Outcomes == BOOLEAN

\* --- navigation of one tab ---------------------------------------------
\* Room "null" was created, with password "p", by the tab u2, which waits on
\* its name screen; u1 is a fresh tab that navigates, creates the room "r"
\* and claims the name "a".  The store answers every request.
InitNav ==
    /\ rooms = (RoomNull :> hashPassword(<<"p">>))
    /\ StoreEmpty
    /\ TabsIdle
    /\ OnNameScreen({"u2"}, {"u2"}, RoomNull)

NextNav ==
    \E c \in {"u1"} :
        \/ \E h \in Rooms \cup {NoRoom} : UserHashChange(c, h)
        \/ handleHashChange(c)
        \/ \E r \in Rooms, ok \in Outcomes : verifyRoomExists(c, r, ok)
        \/ backToRoomsBtn(c)
        \/ handleRoomFormSubmit(c, <<" ", "R">>, <<"p", " ">>)
        \/ \E ok \in Outcomes : handleRoomFormSubmit_getDoc(c, ok)
        \/ \E ok \in Outcomes : handleRoomFormSubmit_setDoc(c, ok)
        \/ handlePasswordVerifySubmit(c, <<"p">>)
        \/ handlePasswordVerifySubmit_hash(c)
        \/ \E ok \in Outcomes : handlePasswordVerifySubmit_getDoc(c, ok)
        \/ handleNameFormSubmit(c, <<"a">>)
        \/ \E ok \in Outcomes : handleNameFormSubmit_getDocs(c, ok)
        \/ \E ok \in Outcomes : handleNameFormSubmit_getMessages(c, ok)
        \/ \E ok \in Outcomes : handleNameFormSubmit_updateDoc(c, ok)
        \/ \E ok \in Outcomes : handleNameFormSubmit_setDoc(c, ok)
        \/ \E ok \in Outcomes : handleNameFormSubmit_addDoc(c, ok)
        \/ handleLeaveRoom(c)
        \/ \E ok \in Outcomes : handleLeaveRoom_deleteDoc(c, ok)
        \/ \E ok \in Outcomes : handleLeaveRoom_addDoc(c, ok)

SpecNav == InitNav /\ [][NextNav]_vars

\* --- name claims in one room -------------------------------------------
\* Room "r" exists; three tabs have passed its gate and are on the name
\* screen.  u1 and u2 run the current client, u3 runs src/app.js.  The tabs
\* stay in the room: they claim names and leave, nobody edits the address.
InitPresence ==
    /\ rooms = (RoomR :> hashPassword(<<"p">>))
    /\ StoreEmpty
    /\ TabsIdle
    /\ OnNameScreen(Clients, {"u1", "u2"}, RoomR)

NextPresence ==
    \/ \E c \in {"u1", "u2"} :
        \/ \E n \in {<<"a">>, <<"A", " ">>} : handleNameFormSubmit(c, n)
        \/ \E ok \in Outcomes : handleNameFormSubmit_getDocs(c, ok)
        \/ \E ok \in Outcomes : handleNameFormSubmit_getMessages(c, ok)
        \/ \E ok \in Outcomes : handleNameFormSubmit_updateDoc(c, ok)
        \/ \E ok \in Outcomes : handleNameFormSubmit_setDoc(c, ok)
        \/ \E ok \in Outcomes : handleNameFormSubmit_addDoc(c, ok)
        \/ handleLeaveRoom(c)
        \/ \E ok \in Outcomes : handleLeaveRoom_deleteDoc(c, ok)
        \/ \E ok \in Outcomes : handleLeaveRoom_addDoc(c, ok)
        \/ handleHashChange(c)
        \/ startPresenceHeartbeat(c)
        \/ \E ok \in Outcomes : startPresenceHeartbeat_updateDoc(c, ok)
    \/ \E c \in {"u3"} :
        \/ \E n \in {<<"a">>, <<"A", " ">>} : app_handleNameFormSubmit(c, n)
        \/ \E ok \in Outcomes : app_handleNameFormSubmit_getDocs(c, ok)
        \/ \E ok \in Outcomes : app_handleNameFormSubmit_setDoc(c, ok)
        \/ \E ok \in Outcomes : app_handleNameFormSubmit_addDoc(c, ok)
        \/ app_handleLeaveRoom(c)
        \/ \E ok \in Outcomes : app_handleLeaveRoom_addDoc(c, ok)
        \/ \E ok \in Outcomes : app_handleLeaveRoom_deleteDoc(c, ok)
        \/ app_handleHashChange(c)

SpecPresence == InitPresence /\ [][NextPresence]_vars

\* --- the stale-peer reaper ---------------------------------------------
\* Three tabs of the current client joined room "r" in the same second as
\* "a", "b" and "c"; the tab of "c" was killed, its record stays behind.
\* u1 and u2 are in the chat with their timers running.
ReaperNames == ("u1" :> <<"a">>) @@ ("u2" :> <<"b">>) @@ ("u3" :> <<"c">>)
Reapers == {"u1", "u2"}

InitReaper ==
    /\ rooms = (RoomR :> hashPassword(<<"p">>))
    /\ users = [r \in Rooms |->
                  IF r = RoomR
                  THEN [c \in Clients |->
                          [name |-> ReaperNames[c], joined |-> StartTime,
                           lastActive |-> StartTime]]
                  ELSE <<>>]
    /\ messages = [r \in Rooms |->
                  IF r = RoomR
                  THEN [i \in 1..3 |->
                          [type |-> "event", kind |-> "joined",
                           who |-> ReaperNames[<<"u1", "u2", "u3">>[i]],
                           senderId |-> "system", timestamp |-> StartTime]]
                  ELSE <<>>]
    /\ typing = [r \in Rooms |-> <<>>]
    /\ clock = 0
    /\ ui = [c \in Clients |-> IF c \in Reapers THEN "chat" ELSE "room"]
    /\ currentRoom = [c \in Clients |-> IF c \in Reapers THEN RoomR ELSE NoRoom]
    /\ userName = [c \in Clients |-> IF c \in Reapers THEN ReaperNames[c] ELSE NoName]
    /\ hash = [c \in Clients |-> IF c \in Reapers THEN RoomR ELSE NoRoom]
    /\ savedRoom = [c \in Clients |-> IF c \in Reapers THEN RoomR ELSE NoRoom]
    /\ passed = [c \in Clients |-> IF c \in Reapers THEN {RoomR} ELSE {}]
    /\ unsubscribeMessages = [c \in Clients |-> IF c \in Reapers THEN Sub(RoomR) ELSE NoSub]
    /\ unsubscribeUsers = [c \in Clients |-> IF c \in Reapers THEN Sub(RoomR) ELSE NoSub]
    /\ unsubscribeTyping = [c \in Clients |-> IF c \in Reapers THEN Sub(RoomR) ELSE NoSub]
    /\ heartbeatInterval = [c \in Clients |-> IF c \in Reapers THEN RoomR ELSE NoRoom]
    /\ presenceCleanupInterval =
            [c \in Clients |-> IF c \in Reapers THEN RoomR ELSE NoRoom]
    /\ beforeUnloadHandler = [c \in Clients |-> c \in Reapers]
    /\ isNavigating = [c \in Clients |-> FALSE]
    /\ roomError = [c \in Clients |-> ""]
    /\ passwordError = [c \in Clients |-> ""]
    /\ nameError = [c \in Clients |-> ""]
    /\ isTyping = [c \in Clients |-> FALSE]
    /\ typingDebounceTimer = [c \in Clients |-> FALSE]
    /\ typingTimeout = [c \in Clients |-> FALSE]
    /\ typingOps = [c \in Clients |-> <<>>]
    /\ ms = 0
    /\ debounceDue = [c \in Clients |-> 0]
    /\ timeoutDue = [c \in Clients |-> 0]
    /\ keystrokes = [c \in Clients |-> NoKeystrokes]
    /\ typingUsers = [c \in Clients |-> NoTyping]
    /\ hashEvents = [c \in Clients |-> 0]
    /\ verifying = [c \in Clients |-> {}]
    /\ roomForm = [c \in Clients |-> Idle]
    /\ passwordForm = [c \in Clients |-> Idle]
    /\ nameForm = [c \in Clients |-> Idle]
    /\ leaving = [c \in Clients |-> Idle]
    /\ heartbeat = [c \in Clients |-> Idle]
    /\ cleanup = [c \in Clients |-> Idle]
    /\ createdOrJoined = [c \in Clients |-> {}]
    /\ unloads = [c \in Clients |-> <<>>]
    /\ ownDocs = [c \in Clients |-> <<>>]
    /\ seen = [c \in Clients |-> 0]
    /\ lastSnapshot = [c \in Clients |-> <<>>]
    /\ isInitialMessageLoad = [c \in Clients |-> TRUE]
    /\ messageList = [c \in Clients |-> <<>>]
    /\ messageCache = [c \in Clients |-> {}]
    /\ usersInRoom = [c \in Clients |-> <<>>]
    /\ deleteChat = [c \in Clients |-> Idle]
    /\ userActions = 0

NextReaper ==
    \/ Tick
    \/ \E c \in Reapers :
        \/ startPresenceHeartbeat(c)
        \/ \E ok \in Outcomes : startPresenceHeartbeat_updateDoc(c, ok)
        \/ startPresenceCleanup(c)
        \/ \E ok \in Outcomes : startPresenceCleanup_getDocs(c, ok)
        \/ \E id \in Clients, ok \in Outcomes : startPresenceCleanup_deleteDoc(c, id, ok)
        \/ \E id \in Clients, ok \in Outcomes : startPresenceCleanup_addDoc(c, id, ok)

SpecReaper == InitReaper /\ [][NextReaper]_vars

\* --- the heartbeat against a leave -------------------------------------
\* The tabs of "a" and "b" of the reaper scenario, with their heartbeats
\* running while the clock advances and either of them may leave.
NextHeartbeat ==
    \/ Tick
    \/ \E c \in Reapers :
        \/ startPresenceHeartbeat(c)
        \/ \E ok \in Outcomes : startPresenceHeartbeat_updateDoc(c, ok)
        \/ handleLeaveRoom(c)
        \/ \E ok \in Outcomes : handleLeaveRoom_deleteDoc(c, ok)
        \/ \E ok \in Outcomes : handleLeaveRoom_addDoc(c, ok)
        \/ handleHashChange(c)

SpecHeartbeat == InitReaper /\ [][NextHeartbeat]_vars

\* --- two tabs at the gate of a room ------------------------------------
\* Room "null" was created with the password "p" in an earlier session; the
\* tabs u1 and u2 are fresh, on the room screen.  Each may submit the room
\* form for "r" or "null", follow a link to either room and answer the
\* password prompt.
GateInputs == { <<"p">>, <<"p", " ">>, <<"q">>, <<" ">> }
GateTabs == {"u1", "u2"}

InitGate ==
    /\ rooms = (RoomNull :> hashPassword(<<"p">>))
    /\ StoreEmpty
    /\ TabsIdle
    /\ OnNameScreen({}, {}, NoRoom)

NextGate ==
    \E c \in GateTabs :
        \/ \E h \in Rooms \cup {NoRoom} : UserHashChange(c, h)
        \/ handleHashChange(c)
        \/ \E r \in Rooms, ok \in Outcomes : verifyRoomExists(c, r, ok)
        \/ \E r \in {<<" ", "R">>, RoomNull}, p \in GateInputs :
                handleRoomFormSubmit(c, r, p)
        \/ \E ok \in Outcomes : handleRoomFormSubmit_getDoc(c, ok)
        \/ \E ok \in Outcomes : handleRoomFormSubmit_setDoc(c, ok)
        \/ \E p \in GateInputs : handlePasswordVerifySubmit(c, p)
        \/ handlePasswordVerifySubmit_hash(c)
        \/ \E ok \in Outcomes : handlePasswordVerifySubmit_getDoc(c, ok)

SpecGate == InitGate /\ [][NextGate]_vars

\* --- closing the tab ----------------------------------------------------
\* The tabs of "a" and "b" of the reaper scenario, heartbeats running; either
\* tab may be closed, which fires the unload signals.
NextUnload ==
    \/ Tick
    \/ \E c \in Reapers :
        \/ startPresenceHeartbeat(c)
        \/ \E ok \in Outcomes : startPresenceHeartbeat_updateDoc(c, ok)
        \/ \E signal \in UnloadSignals : beforeUnloadHandler_fire(c, signal)
        \/ \E i \in 1..Cardinality(UnloadSignals), ok \in Outcomes :
                beforeUnloadHandler_deleteDoc(c, i, ok)
        \/ \E i \in 1..Cardinality(UnloadSignals), ok \in Outcomes :
                beforeUnloadHandler_addDoc(c, i, ok)

SpecUnload == InitReaper /\ [][NextUnload]_vars

\* --- the message list ---------------------------------------------------
\* The tabs of "a" and "b" of the reaper scenario just after they entered the
\* chat: their listeners are attached and have not delivered a snapshot.
\* Either tab sends messages while the clock advances; the message list
\* followed is that of "a".
NextRender ==
    \/ Tick
    \/ \E c \in Reapers :
        \/ userActions < MaxMessages /\ handleMessageFormSubmit(c)
        \/ \E i \in 1..MaxMessages, ok \in Outcomes : handleMessageFormSubmit_addDoc(c, i, ok)
    \/ \E k \in 0..(Len(messages[RoomR])) : listenForMessages_onSnapshot("u1", k)

SpecRender == InitReaper /\ [][NextRender]_vars

\* --- a reloaded tab --------------------------------------------------------
\* Room "null" exists with password "p" and u2 waits on its name screen, as
\* in InitNav.  u1 is a tab reloaded without a fragment whose session
\* storage holds the room "null": initializeAppLogic has run to its end.
\* checkSavedSession took the room as currentRoom, set the lock and assigned
\* the fragment; the direct call of handleHashChange that follows released
\* the lock and returned; the hashchange event of the assignment waits.
\* The page shows what it is served with, which the script has not changed.
InitRestore ==
    /\ rooms = (RoomNull :> hashPassword(<<"p">>))
    /\ StoreEmpty
    /\ ScriptIdle
    /\ hashEvents = [c \in Clients |-> IF c = "u1" THEN 1 ELSE 0]
    /\ \E served \in {"loading", "room"} :
          ui = [c \in Clients |-> IF c = "u1" THEN served
                                  ELSE IF c = "u2" THEN "name" ELSE "room"]
    /\ currentRoom = [c \in Clients |-> IF c \in {"u1", "u2"} THEN RoomNull ELSE NoRoom]
    /\ hash = [c \in Clients |-> IF c \in {"u1", "u2"} THEN RoomNull ELSE NoRoom]
    /\ savedRoom = [c \in Clients |-> IF c \in {"u1", "u2"} THEN RoomNull ELSE NoRoom]
    /\ passed = [c \in Clients |-> IF c = "u2" THEN {RoomNull} ELSE {}]

\* The steps of tab c that no user takes: a queued hashchange event is
\* dispatched, an awaited store operation settles.
settle(c) ==
    \/ handleHashChange(c)
    \/ \E r \in Rooms, ok \in Outcomes : verifyRoomExists(c, r, ok)
    \/ \E ok \in Outcomes : handleRoomFormSubmit_getDoc(c, ok)
    \/ \E ok \in Outcomes : handleRoomFormSubmit_setDoc(c, ok)
    \/ handlePasswordVerifySubmit_hash(c)
    \/ \E ok \in Outcomes : handlePasswordVerifySubmit_getDoc(c, ok)
    \/ \E ok \in Outcomes : handleNameFormSubmit_getDocs(c, ok)
    \/ \E ok \in Outcomes : handleNameFormSubmit_getMessages(c, ok)
    \/ \E ok \in Outcomes : handleNameFormSubmit_updateDoc(c, ok)
    \/ \E ok \in Outcomes : handleNameFormSubmit_setDoc(c, ok)
    \/ \E ok \in Outcomes : handleNameFormSubmit_addDoc(c, ok)
    \/ \E ok \in Outcomes : handleLeaveRoom_deleteDoc(c, ok)
    \/ \E ok \in Outcomes : handleLeaveRoom_addDoc(c, ok)

\* The event loop runs every queued event and every settled promise.
SpecRestore == InitRestore /\ [][NextNav]_vars /\ WF_vars(settle("u1"))

\* --- typing: u1, in the chat of room "r", types; nothing but its keystrokes
\* and the two timers of the typing indicator acts, and a timer that is due
\* runs before the next keystroke is handled.
timerDue(c) ==
    \/ typingDebounceTimer[c] /\ ms >= debounceDue[c]
    \/ typingTimeout[c] /\ ms >= timeoutDue[c]

NextTyping ==
    \/ TickMs
    \/ ~timerDue("u1") /\ handleTypingIndicator("u1")
    \/ handleTypingIndicator_debounce("u1")
    \/ stopTypingIndicator_timeout("u1")
    \/ \E ok \in Outcomes : typingWrite("u1", ok)

SpecTyping == InitReaper /\ [][NextTyping]_vars

\* --- an end-to-end run ---------------------------------------------------
\* Room "r" was created with password "p"; u1 has joined it as "a" and is in
\* the chat with its timers running, u2 has passed the gate and is on the
\* name screen.  The run is sequential: u1 sends a message, u2 asks for the
\* name of u1, u1 sends a second message and leaves, each step once the
\* step before has settled.  The store answers every request; meanwhile time
\* passes, the heartbeat of u1 beats and its listener is notified.
InitE2E ==
    /\ rooms = (RoomR :> hashPassword(<<"p">>))
    /\ users = [r \in Rooms |->
                  IF r = RoomR
                  THEN ("u1" :> [name |-> <<"a">>, joined |-> StartTime,
                                 lastActive |-> StartTime])
                  ELSE <<>>]
    /\ messages = [r \in Rooms |->
                  IF r = RoomR
                  THEN <<[type |-> "event", kind |-> "joined", who |-> <<"a">>,
                          senderId |-> "system", timestamp |-> StartTime]>>
                  ELSE <<>>]
    /\ typing = [r \in Rooms |-> <<>>]
    /\ clock = 0
    /\ ui = [c \in Clients |-> IF c = "u1" THEN "chat" ELSE IF c = "u2" THEN "name" ELSE "room"]
    /\ currentRoom = [c \in Clients |-> IF c \in {"u1", "u2"} THEN RoomR ELSE NoRoom]
    /\ userName = [c \in Clients |-> IF c = "u1" THEN <<"a">> ELSE NoName]
    /\ hash = [c \in Clients |-> IF c \in {"u1", "u2"} THEN RoomR ELSE NoRoom]
    /\ savedRoom = [c \in Clients |-> IF c \in {"u1", "u2"} THEN RoomR ELSE NoRoom]
    /\ passed = [c \in Clients |-> IF c \in {"u1", "u2"} THEN {RoomR} ELSE {}]
    /\ unsubscribeMessages = [c \in Clients |-> IF c = "u1" THEN Sub(RoomR) ELSE NoSub]
    /\ unsubscribeUsers = [c \in Clients |-> IF c = "u1" THEN Sub(RoomR) ELSE NoSub]
    /\ unsubscribeTyping = [c \in Clients |-> IF c = "u1" THEN Sub(RoomR) ELSE NoSub]
    /\ heartbeatInterval = [c \in Clients |-> IF c = "u1" THEN RoomR ELSE NoRoom]
    /\ presenceCleanupInterval = [c \in Clients |-> IF c = "u1" THEN RoomR ELSE NoRoom]
    /\ beforeUnloadHandler = [c \in Clients |-> c = "u1"]
    /\ isNavigating = [c \in Clients |-> FALSE]
    /\ roomError = [c \in Clients |-> ""]
    /\ passwordError = [c \in Clients |-> ""]
    /\ nameError = [c \in Clients |-> ""]
    /\ isTyping = [c \in Clients |-> FALSE]
    /\ typingDebounceTimer = [c \in Clients |-> FALSE]
    /\ typingTimeout = [c \in Clients |-> FALSE]
    /\ typingOps = [c \in Clients |-> <<>>]
    /\ ms = 0
    /\ debounceDue = [c \in Clients |-> 0]
    /\ timeoutDue = [c \in Clients |-> 0]
    /\ keystrokes = [c \in Clients |-> NoKeystrokes]
    /\ typingUsers = [c \in Clients |-> NoTyping]
    /\ hashEvents = [c \in Clients |-> 0]
    /\ verifying = [c \in Clients |-> {}]
    /\ roomForm = [c \in Clients |-> Idle]
    /\ passwordForm = [c \in Clients |-> Idle]
    /\ nameForm = [c \in Clients |-> Idle]
    /\ leaving = [c \in Clients |-> Idle]
    /\ heartbeat = [c \in Clients |-> Idle]
    /\ cleanup = [c \in Clients |-> Idle]
    /\ createdOrJoined = [c \in Clients |-> {}]
    /\ unloads = [c \in Clients |-> <<>>]
    /\ ownDocs = [c \in Clients |-> <<>>]
    /\ seen = [c \in Clients |-> 0]
    /\ lastSnapshot = [c \in Clients |-> <<>>]
    /\ isInitialMessageLoad = [c \in Clients |-> TRUE]
    /\ messageList = [c \in Clients |-> <<>>]
    /\ messageCache = [c \in Clients |-> {}]
    /\ usersInRoom = [c \in Clients |-> <<>>]
    /\ deleteChat = [c \in Clients |-> Idle]
    /\ userActions = 0

\* every handler has run to its end and every message sent is in the log
settled ==
    /\ \A c \in Clients : InFlight(c) = 0 /\ hashEvents[c] = 0
    /\ \A c \in Clients : \A i \in 1..Len(ownDocs[c]) : ownDocs[c][i].pc = "done"

NextE2E ==
    \/ settled /\ userActions \in {0, 2} /\ handleMessageFormSubmit("u1")
    \/ \E i \in 1..MaxMessages : handleMessageFormSubmit_addDoc("u1", i, TRUE)
    \/ settled /\ userActions = 1
          /\ \E n \in {<<"a">>, <<"A">>} : handleNameFormSubmit("u2", n)
    \/ handleNameFormSubmit_getDocs("u2", TRUE)
    \/ settled /\ userActions = 3 /\ handleLeaveRoom("u1")
    \/ handleLeaveRoom_deleteDoc("u1", TRUE)
    \/ handleLeaveRoom_addDoc("u1", TRUE)
    \/ handleHashChange("u1")
    \/ Tick
    \/ startPresenceHeartbeat("u1")
    \/ startPresenceHeartbeat_updateDoc("u1", TRUE)
    \/ \E k \in 0..Len(messages[RoomR]) : listenForMessages_onSnapshot("u1", k)

SpecE2E == InitE2E /\ [][NextE2E]_vars

\* --- clear history -------------------------------------------------------
\* The reaper scenario with the history being cleared: u1 clears it with the
\* current client while its reaper runs, u2 clears it with src/app.js or
\* leaves.  Only the requests of the two clear-history handlers may fail.
NextClear ==
    \/ Tick
    \/ startPresenceCleanup("u1")
    \/ startPresenceCleanup_getDocs("u1", TRUE)
    \/ \E id \in Clients : startPresenceCleanup_deleteDoc("u1", id, TRUE)
    \/ \E id \in Clients : startPresenceCleanup_addDoc("u1", id, TRUE)
    \/ handleDeleteChat("u1")
    \/ \E ok \in Outcomes : handleDeleteChat_getDocs("u1", ok)
    \/ \E ok \in Outcomes : handleDeleteChat_commit("u1", ok)
    \/ \E ok \in Outcomes : handleDeleteChat_addDoc("u1", ok)
    \/ app_handleDeleteChat("u2")
    \/ \E ok \in Outcomes : app_handleDeleteChat_getDocs("u2", ok)
    \/ \E ok \in Outcomes : app_handleDeleteChat_commit("u2", ok)
    \/ handleLeaveRoom("u2")
    \/ handleLeaveRoom_deleteDoc("u2", TRUE)
    \/ handleLeaveRoom_addDoc("u2", TRUE)
    \/ handleHashChange("u2")

SpecClear == InitReaper /\ [][NextClear]_vars

\* --- names that end alike ------------------------------------------------
\* The name-claim scenario for the tabs u1 and u2 of the current client, with
\* the names "a" and "ba": one tab joins, leaves, and a tab joins again.
NextRejoin ==
    \E c \in {"u1", "u2"} :
        \/ \E n \in {<<"a">>, <<"b", "a">>} : handleNameFormSubmit(c, n)
        \/ \E ok \in Outcomes : handleNameFormSubmit_getDocs(c, ok)
        \/ \E ok \in Outcomes : handleNameFormSubmit_getMessages(c, ok)
        \/ \E ok \in Outcomes : handleNameFormSubmit_setDoc(c, ok)
        \/ \E ok \in Outcomes : handleNameFormSubmit_addDoc(c, ok)
        \/ handleLeaveRoom(c)
        \/ \E ok \in Outcomes : handleLeaveRoom_deleteDoc(c, ok)
        \/ \E ok \in Outcomes : handleLeaveRoom_addDoc(c, ok)
        \/ handleHashChange(c)

SpecRejoin == InitPresence /\ [][NextRejoin]_vars

\* --- the reaper's reading of ages --------------------------------------
\* The reaper scenario with a store that answers every read: heartbeats and
\* reaper runs of "a" and "b" while the clock passes the stale threshold.
NextAge ==
    \/ Tick
    \/ \E c \in Reapers :
        \/ startPresenceHeartbeat(c)
        \/ \E ok \in Outcomes : startPresenceHeartbeat_updateDoc(c, ok)
        \/ startPresenceCleanup(c)
        \/ startPresenceCleanup_getDocs(c, TRUE)
        \/ \E id \in Clients, ok \in Outcomes : startPresenceCleanup_deleteDoc(c, id, ok)
        \/ \E id \in Clients : startPresenceCleanup_addDoc(c, id, TRUE)

SpecAge == InitReaper /\ [][NextAge]_vars

\* --- a ghost among running reapers ------------------------------------
\* The record of "c" in the reaper scenario is a ghost: its tab is gone and
\* sends no heartbeat.  The steps of the reaper of tab c:
reap(c) ==
    \/ startPresenceCleanup(c)
    \/ startPresenceCleanup_getDocs(c, TRUE)
    \/ \E id \in Clients, ok \in Outcomes : startPresenceCleanup_deleteDoc(c, id, ok)
    \/ \E id \in Clients : startPresenceCleanup_addDoc(c, id, TRUE)

\* Time passes, the interval of the reaper of "a" keeps firing and its awaited
\* operations settle, and the store does not refuse the delete for ever.
SpecGhost ==
    /\ InitReaper
    /\ [][NextAge]_vars
    /\ WF_vars(Tick)
    /\ WF_vars(reap("u1"))
    /\ SF_vars(startPresenceCleanup_deleteDoc("u1", "u3", TRUE))

\* --- a typist that vanishes --------------------------------------------
\* In the reaper scenario "a" types until its Typing Record is written and
\* then is gone: its tab runs no timer any more.  The listeners of "a" and
\* "b" deliver their snapshots while the seconds pass.
NextTypers ==
    \/ Tick
    \/ TickMs
    \/ handleTypingIndicator("u1")
    \/ handleTypingIndicator_debounce("u1")
    \/ \E ok \in Outcomes : typingWrite("u1", ok)
    \/ \E c \in Reapers : listenForTyping_onSnapshot(c)

SpecTypers == InitReaper /\ [][NextTypers]_vars

\* --- every way to stop typing -------------------------------------------
\* "a" of the reaper scenario types, and stops by each trigger: inactivity,
\* losing focus, sending a message, leaving, changing the room.
NextStops ==
    \/ TickMs
    \/ ~timerDue("u1") /\ handleTypingIndicator("u1")
    \/ handleTypingIndicator_debounce("u1")
    \/ stopTypingIndicator_timeout("u1")
    \/ ~timerDue("u1") /\ stopTypingIndicator_blur("u1")
    \/ \E ok \in Outcomes : typingWrite("u1", ok)
    \/ ~timerDue("u1") /\ handleMessageFormSubmit("u1")
    \/ \E i \in 1..MaxMessages : handleMessageFormSubmit_addDoc("u1", i, TRUE)
    \/ ~timerDue("u1") /\ handleLeaveRoom("u1")
    \/ handleLeaveRoom_deleteDoc("u1", TRUE)
    \/ handleLeaveRoom_addDoc("u1", TRUE)
    \/ ~timerDue("u1") /\ \E h \in {RoomR, NoRoom} : UserHashChange("u1", h)
    \/ handleHashChange("u1")
    \/ \E r \in Rooms : verifyRoomExists("u1", r, TRUE)

SpecStops == InitReaper /\ [][NextStops]_vars

\* --- the render cache against clear history ------------------------------
\* "a" and "b" of the reaper scenario are in the chat with their message
\* listeners; "a" clears the history while "b" sends messages.  A listener
\* is told of the writes of its own client before the server answers them:
\* the commit of "a" resolves after its listener has shown the deletes.
localViewDelivered(c) ==
    LET n == Len(messages[RoomR])
        k == IF seen[c] < n THEN seen[c] ELSE n
    IN  ~isInitialMessageLoad[c] /\ querySnapshot(c, RoomR, k) = lastSnapshot[c]

NextCache ==
    \/ \E c \in Reapers : \E k \in 0..Len(messages[RoomR]) :
            listenForMessages_onSnapshot(c, k)
    \/ deleteChat["u1"].pc # "idle" /\ handleMessageFormSubmit("u2")
    \/ \E i \in 1..MaxMessages, ok \in Outcomes : handleMessageFormSubmit_addDoc("u2", i, ok)
    \/ handleDeleteChat("u1")
    \/ \E ok \in Outcomes : handleDeleteChat_getDocs("u1", ok)
    \/ localViewDelivered("u1") /\ \E ok \in Outcomes : handleDeleteChat_commit("u1", ok)
    \/ \E ok \in Outcomes : handleDeleteChat_addDoc("u1", ok)

SpecCache == InitReaper /\ [][NextCache]_vars

\* --- what a teardown leaves behind ---------------------------------------
\* "a" of the reaper scenario, with its listeners of the users and of the
\* Typing Records delivering, leaves the room or changes the fragment.
NextRelease ==
    \/ listenForUsers_onSnapshot("u1")
    \/ listenForTyping_onSnapshot("u1")
    \/ handleLeaveRoom("u1")
    \/ \E ok \in Outcomes : handleLeaveRoom_deleteDoc("u1", ok)
    \/ \E ok \in Outcomes : handleLeaveRoom_addDoc("u1", ok)
    \/ \E h \in {RoomNull, NoRoom} : UserHashChange("u1", h)
    \/ handleHashChange("u1")
    \/ \E r \in Rooms, ok \in Outcomes : verifyRoomExists("u1", r, ok)
    \/ handleTypingIndicator("u2")
    \/ TickMs
    \/ handleTypingIndicator_debounce("u2")
    \/ typingWrite("u2", TRUE)

SpecRelease == InitReaper /\ [][NextRelease]_vars

\* --- every writer of Presence Records -----------------------------------
\* From the start of the end-to-end run: "a" is in the chat with heartbeat
\* and reaper, u2 claims a name, enters, beats and leaves, the clock runs.
NextOwner ==
    \/ Tick
    \/ \E n \in {<<"a">>, <<"b">>} : handleNameFormSubmit("u2", n)
    \/ \E ok \in Outcomes : handleNameFormSubmit_getDocs("u2", ok)
    \/ handleNameFormSubmit_getMessages("u2", TRUE)
    \/ \E ok \in Outcomes : handleNameFormSubmit_setDoc("u2", ok)
    \/ handleNameFormSubmit_addDoc("u2", TRUE)
    \/ handleLeaveRoom("u2")
    \/ \E ok \in Outcomes : handleLeaveRoom_deleteDoc("u2", ok)
    \/ handleLeaveRoom_addDoc("u2", TRUE)
    \/ handleHashChange("u2")
    \/ \E c \in {"u1", "u2"} :
        \/ startPresenceHeartbeat(c)
        \/ \E ok \in Outcomes : startPresenceHeartbeat_updateDoc(c, ok)
        \/ startPresenceCleanup(c)
        \/ \E ok \in Outcomes : startPresenceCleanup_getDocs(c, ok)
        \/ \E id \in Clients, ok \in Outcomes : startPresenceCleanup_deleteDoc(c, id, ok)
        \/ \E id \in Clients : startPresenceCleanup_addDoc(c, id, TRUE)

SpecOwner == InitE2E /\ [][NextOwner]_vars

\* --- the teardown run twice ---------------------------------------------
\* what cleanupSubscriptions leaves of the session of client c
torn(c) ==
    /\ unsubscribeMessages[c] = NoSub
    /\ unsubscribeUsers[c] = NoSub
    /\ unsubscribeTyping[c] = NoSub
    /\ heartbeatInterval[c] = NoRoom
    /\ presenceCleanupInterval[c] = NoRoom
    /\ ~beforeUnloadHandler[c]
    /\ typingUsers[c] = NoTyping
    /\ \/ currentRoom[c] = NoRoom
       \/ ~isTyping[c] /\ ~typingDebounceTimer[c] /\ ~typingTimeout[c]

\* cleanupSubscriptions from its first line to its last, before the rest of
\* the handler that called it.
cleanupSubscriptions_run(c) ==
    /\ cleanupSubscriptions(c)
    /\ UNCHANGED <<storeVars, clock, scriptVars, errorVars, browserVars, handlerVars,
                   passed, createdOrJoined, unloads, renderVars, userActions>>

\* "a" and "b" type in the chat and the typing listener of "a" shows it; the
\* teardown of "a" runs at any moment, and once it ran it runs again.
NextTeardown ==
    \/ cleanupSubscriptions_run("u1")
    \/ /\ ~torn("u1")
       /\ \/ TickMs
          \/ \E c \in Reapers :
                \/ ~timerDue(c) /\ keystrokes[c] = NoKeystrokes /\ handleTypingIndicator(c)
                \/ handleTypingIndicator_debounce(c)
                \/ typingWrite(c, TRUE)
          \/ stopTypingIndicator_timeout("u1")
          \/ listenForTyping_onSnapshot("u1")
          \/ ~timerDue("u1") /\ \E h \in {RoomNull, NoRoom} : UserHashChange("u1", h)
          \/ handleHashChange("u1")
          \/ \E r \in Rooms : verifyRoomExists("u1", r, TRUE)

SpecTeardown == InitReaper /\ [][NextTeardown]_vars

\* --- heartbeats that keep up with the clock -----------------------------
\* every tab in the chat with a running heartbeat has its record refreshed at
\* the present instant, or has lost it
heartbeatsLanded ==
    \A c \in Reapers :
        (ui[c] = "chat" /\ heartbeatInterval[c] # NoRoom /\ HasUser(RoomR, c))
            => lastActiveOf(users[RoomR][c]) = now

\* The reaper scenario with no heartbeat held back and none refused: the
\* 10-second heartbeat of each tab fires and is acknowledged before the clock
\* moves on to the next instant.
NextActive ==
    \/ heartbeatsLanded /\ Tick
    \/ \E c \in Reapers :
        \/ startPresenceHeartbeat(c)
        \/ startPresenceHeartbeat_updateDoc(c, TRUE)
        \/ startPresenceCleanup(c)
        \/ \E ok \in Outcomes : startPresenceCleanup_getDocs(c, ok)
        \/ \E id \in Clients, ok \in Outcomes : startPresenceCleanup_deleteDoc(c, id, ok)
        \/ \E id \in Clients, ok \in Outcomes : startPresenceCleanup_addDoc(c, id, ok)

SpecActive == InitReaper /\ [][NextActive]_vars

\* --- the reaper against a room change ----------------------------------
\* The reaper of "a" runs while the clock passes the stale threshold and the
\* user of its tab edits the fragment of the address; the Presence Records
\* of the scenario are all in room "r".
NextPost ==
    \/ Tick
    \/ startPresenceCleanup("u1")
    \/ startPresenceCleanup_getDocs("u1", TRUE)
    \/ \E id \in Clients, ok \in Outcomes : startPresenceCleanup_deleteDoc("u1", id, ok)
    \/ \E id \in Clients, ok \in Outcomes : startPresenceCleanup_addDoc("u1", id, ok)
    \/ \E h \in {RoomNull, NoRoom} : UserHashChange("u1", h)
    \/ handleHashChange("u1")
    \/ \E r \in Rooms, ok \in Outcomes : verifyRoomExists("u1", r, ok)

SpecPost == InitReaper /\ [][NextPost]_vars

\* --- the whole system ---------------------------------------------------
\* Every tab may take every step of the current client, u3 those of
\* src/app.js as well; the scenarios above restrict this relation.
Next ==
    \/ NextNav
    \/ NextPresence
    \/ NextReaper
    \/ NextHeartbeat
    \/ NextGate
    \/ NextUnload
    \/ NextRender
    \/ NextTyping
    \/ NextE2E
    \/ NextClear
    \/ NextRejoin
    \/ NextAge
    \/ NextTypers
    \/ NextStops
    \/ NextCache
    \/ NextRelease
    \/ NextOwner
    \/ NextTeardown
    \/ NextActive
    \/ NextPost
    \/ \E c \in Clients :
        \/ \E h \in Rooms \cup {NoRoom} : UserHashChange(c, h)
        \/ \E r \in RoomInputs, p \in PasswordInputs : handleRoomFormSubmit(c, r, p)
        \/ \E p \in PasswordInputs : handlePasswordVerifySubmit(c, p)
        \/ \E n \in NameInputs : handleNameFormSubmit(c, n)
        \/ handleTypingIndicator(c)
        \/ handleTypingIndicator_debounce(c)
        \/ stopTypingIndicator_timeout(c)
        \/ stopTypingIndicator_blur(c)
        \/ \E ok \in Outcomes : typingWrite(c, ok)
    \/ \E r \in Rooms, ok \in Outcomes : app_handleHashChange_getDoc("u3", r, ok)

Spec == Init /\ [][Next]_vars

\* ------------------------------------------------------------------ claims
sameName(m, n) == toLowerCase(m) = toLowerCase(n)

\* Tab c is in the chat of room r with its heartbeat timer running.
HeartbeatActive(c, r) ==
    /\ ui[c] = "chat"
    /\ currentRoom[c] = r
    /\ heartbeatInterval[c] = r

\* C1: once the name handlers of two tabs have finished, no room holds two
\* Presence Records with the same case-insensitive name whose owners are both
\* in the chat with a running heartbeat.
C1_NameUnique ==
    \A r \in Rooms : \A i, j \in DOMAIN users[r] :
        ( /\ i # j
          /\ nameForm[i].pc = "idle" /\ nameForm[j].pc = "idle"
          /\ HeartbeatActive(i, r) /\ HeartbeatActive(j, r) )
        => ~sameName(users[r][i].name, users[r][j].name)

\* the "disconnected" events the log of room r holds for the name n
Disconnects(r, n) ==
    { i \in 1..Len(messages[r]) :
        messages[r][i].kind = "disconnected" /\ messages[r][i].who = n }

\* C2: the record of "c", last active at StartTime, is retained while it is
\* at most 60 seconds old and no "c has disconnected." event exists before
\* it is 61 seconds old; once reaped, exactly one such event is posted in
\* total, however many tabs run their reapers.
C2_ReaperThreshold ==
    LET n == ReaperNames["u3"] IN
    /\ now - StartTime <= staleThreshold
           => HasUser(RoomR, "u3") /\ Disconnects(RoomR, n) = {}
    /\ Cardinality(Disconnects(RoomR, n)) <= 1

\* the last message of room r after this step was appended by this step
Posted(r) ==
    /\ Len(messages'[r]) = Len(messages[r]) + 1
    /\ \A q \in Rooms \ {r} : messages'[q] = messages[q]

\* C3: on a leave, the step that deletes the own Presence Record finds the
\* heartbeat timer and the typing state stopped, and the step that posts
\* "<name> has left the room." finds the own record deleted.
C3_LeaveOrder ==
    [][\A c \in Clients :
          LET f == leaving[c] IN
          /\ (f.pc = "deleteDoc" /\ leaving'[c] # f /\ users' # users)
                => heartbeatInterval[c] = NoRoom /\ ~isTyping[c]
          /\ (f.pc = "addDoc" /\ leaving'[c] # f /\ messages' # messages)
                => ~HasUser(f.room, c)]_vars

\* C4: a tab that is on the password, name or chat screen of a room holds no
\* Presence Record in any other room: the record of the room it exited was
\* deleted before it reached a screen of the next one.
C4_ExitReleasesPresence ==
    \A c \in Clients : \A r \in Rooms :
        (HasUser(r, c) /\ ui[c] \in {"password", "name", "chat"}) => currentRoom[c] = r

\* C5: in no reachable state does a tab hold a live message, user or typing
\* subscription, a heartbeat timer or a reaper timer bound to a room other
\* than its current room.
C5_BoundToCurrentRoom ==
    \A c \in Clients :
        /\ \A h \in {unsubscribeMessages[c], unsubscribeUsers[c], unsubscribeTyping[c]} :
              h.live => h.room = currentRoom[c]
        /\ heartbeatInterval[c] \in {NoRoom, currentRoom[c]}
        /\ presenceCleanupInterval[c] \in {NoRoom, currentRoom[c]}

\* C6: a tab has a Presence Record in room r, or a live subscription to r,
\* only if in this session it passed r's password gate or created r.
C6_PasswordGate ==
    \A c \in Clients : \A r \in Rooms :
        ( \/ HasUser(r, c)
          \/ \E h \in {unsubscribeMessages[c], unsubscribeUsers[c], unsubscribeTyping[c]} :
                h.live /\ h.room = r )
        => r \in passed[c]

\* C7: the step in which a name claim puts the tab into the chat posts the
\* claim's one lifecycle message, "joined" or "rejoined"; no claim enters
\* the chat without one.
C7_OneLifecycleMessage ==
    [][\A c \in Clients :
          (ui[c] # "chat" /\ ui'[c] = "chat")
          => \E r \in Rooms :
                /\ Posted(r)
                /\ messages'[r][Len(messages'[r])].kind \in {"joined", "rejoined"}]_vars

\* the scan of tab c finds the claimed name on a record of another identity
C8_Collision(c) ==
    /\ nameForm[c].pc = "getDocs"
    /\ \E id \in DOMAIN users[nameForm[c].room] :
          id # c /\ sameName(users[nameForm[c].room][id].name, nameForm[c].name)

NameTakenErrors ==
    { "This name is already in use. Please choose another.",
      "This name is already taken by another active user. Please choose another." }

\* C8: a scan that finds the claimed name on a record of another identity
\* ends the claim with the name-taken error on the name screen and writes
\* nothing: no record, message, subscription, timer or userName changes.
C8_CollisionRejected ==
    [][\A c \in Clients :
          ( /\ C8_Collision(c)
            /\ \/ handleNameFormSubmit_getDocs(c, TRUE)
               \/ app_handleNameFormSubmit_getDocs(c, TRUE) )
          => /\ nameError'[c] \in NameTakenErrors
             /\ ui'[c] = "name"
             /\ nameForm'[c] = Idle
             /\ UNCHANGED <<storeVars, subVars, timerVars, userName>>]_vars

\* both clients have rejected a claim: u1 holds the name, u2 and u3 asked for it
C8_Witness ==
    /\ \E r \in Rooms : HasUser(r, "u1")
    /\ nameError["u2"] = "This name is already in use. Please choose another."
    /\ nameError["u3"] =
          "This name is already taken by another active user. Please choose another."
    /\ userName["u2"] = NoName /\ userName["u3"] = NoName

\* the scan of the running claim of c found only c's own record under the name
C9_SelfFound(c) ==
    LET f == nameForm[c] IN
    IF f.pc = "getDocs"
    THEN /\ c \in DOMAIN users[f.room]
         /\ \A id \in DOMAIN users[f.room] :
               sameName(users[f.room][id].name, f.name) <=> id = c
    ELSE f.pc \in {"updateDoc", "addDoc"} /\ f.existingUserDoc

\* C9: a claim whose scan found the name only on the claimant's own record
\* enters the chat with that record kept under its name, the number of
\* records unchanged, and "<name> has rejoined the room." posted.
C9_SelfRejoin ==
    [][\A c \in Clients :
          (C9_SelfFound(c) /\ ui[c] # "chat" /\ ui'[c] = "chat")
          => \E r \in Rooms :
                /\ Posted(r)
                /\ messages'[r][Len(messages'[r])].kind = "rejoined"
                /\ HasUser(r, c)
                /\ users' = users
                /\ sameName(messages'[r][Len(messages'[r])].who, users[r][c].name)]_vars

\* C10: when the deleteDoc of a reaper callback resolves for a record that
\* is already gone, the callback ends there: the Presence collection is
\* unchanged and no "has disconnected." event is issued.
C10_DuplicateReapNoOp ==
    [][\A c \in Clients : \A id \in Clients :
          LET f == cleanup[c] IN
          ( /\ f.pc = "callbacks"
            /\ id \in DOMAIN f.stale
            /\ ~HasUser(f.room, id)
            /\ cleanup'[c] # f
            /\ (cleanup'[c].pc = "callbacks" => id \notin DOMAIN cleanup'[c].stale) )
          => /\ users' = users
             /\ (cleanup'[c].pc = "callbacks" => id \notin DOMAIN cleanup'[c].posts)]_vars


\* the records of a users collection with the lastActive field left out
withoutLastActive(col) ==
    [id \in DOMAIN col |-> [k \in DOMAIN col[id] \ {"lastActive"} |-> col[id][k]]]

\* C11: the step in which a heartbeat's updateDoc resolves changes nothing but
\* the lastActive field of the tab's own Presence Record: no record is
\* created (a record deleted since the write was issued stays deleted), name
\* and joined of every record, every other record, the rooms, the messages
\* and the Typing Records stay as they were.
C11_HeartbeatFrame ==
    [][\A c \in Clients :
          (heartbeat[c].pc = "updateDoc" /\ heartbeat'[c].pc = "idle")
          => /\ UNCHANGED <<rooms, messages, typing>>
             /\ \A r \in Rooms :
                   /\ DOMAIN users'[r] = DOMAIN users[r]
                   /\ withoutLastActive(users'[r]) = withoutLastActive(users[r])
                   /\ \A id \in DOMAIN users[r] \ {c} : users'[r][id] = users[r][id]]_vars

\* A heartbeat of "b" has moved its lastActive past its joined, while a
\* heartbeat write of "a" is still pending on the record its leave deleted.
C11_Witness ==
    /\ HasUser(RoomR, "u2")
    /\ users[RoomR]["u2"].lastActive > users[RoomR]["u2"].joined
    /\ users[RoomR]["u2"].name = ReaperNames["u2"]
    /\ heartbeat["u1"].pc = "updateDoc"
    /\ leaving["u1"].pc = "addDoc"
    /\ ~HasUser(RoomR, "u1")


\* C12: once a Room record exists, no step changes its passwordHash.
C12_HashWriteOnce ==
    [][\A r \in Rooms :
          (Exists(r) /\ r \in DOMAIN rooms') => rooms'[r] = rooms[r]]_vars

\* C13: when the room form of some tab has created or joined room r with a
\* password, a password prompt of r that is answered with the same password
\* and whose read of the Room record succeeds shows the name screen.
C13_PasswordRoundTrip ==
    [][\A c \in Clients :
          LET f == passwordForm[c] IN
          ( /\ f.pc = "getDoc"
            /\ \E c2 \in Clients : <<f.room, f.passwordHash>> \in createdOrJoined[c2]
            /\ handlePasswordVerifySubmit_getDoc(c, TRUE) )
          => ui'[c] = "name" /\ passwordError'[c] = ""]_vars

\* the Room record of r holds the hash made from the password typed as p
createdWith(r, p) == Exists(r) /\ trim(p) # <<>> /\ rooms[r] = hashPassword(trim(p))

\* C14: where room r was created with the password p, a password prompt of r
\* and a room form for r that were submitted with any other typed string
\* end, once the Room record was read, on their own screen with the
\* invalid-password error, the handler finished, nothing written to the
\* store and no gate passed.
C14_WrongPassword ==
    [][\A c \in Clients, r \in Rooms, p \in GateInputs :
          /\ ( /\ passwordForm[c].pc = "getDoc"
               /\ passwordForm[c].room = r
               /\ createdWith(r, p)
               /\ passwordForm[c].input # p
               /\ handlePasswordVerifySubmit_getDoc(c, TRUE) )
             => /\ ui'[c] = "password"
                /\ passwordError'[c] = "Invalid password. Please try again."
                /\ passwordForm'[c] = Idle
                /\ UNCHANGED <<storeVars, passed>>
          /\ ( /\ roomForm[c].pc = "getDoc"
               /\ roomForm[c].roomName = r
               /\ createdWith(r, p)
               /\ roomForm[c].input # p
               /\ handleRoomFormSubmit_getDoc(c, TRUE) )
             => /\ ui'[c] = "room"
                /\ roomError'[c] = "Invalid password for this room."
                /\ roomForm'[c] = Idle
                /\ UNCHANGED <<storeVars, passed>>]_vars


\* the "left" events the log of room r holds for the name n
Lefts(r, n) ==
    { i \in 1..Len(messages[r]) : messages[r][i].kind = "left" /\ messages[r][i].who = n }

\* C15: of the runs of the unload handler of one tab, at most one issues the
\* deleteDoc of the own Presence Record, and the log never holds more than
\* one "left" event for the tab's name.
C15_UnloadOnce ==
    \A c \in Reapers :
        /\ Cardinality({ i \in 1..Len(unloads[c]) : unloads[c][i].pc # "skipped" }) <= 1
        /\ Cardinality(Lefts(RoomR, ReaperNames[c])) <= 1


\* the timestamp the last snapshot of c holds for the document id
snapshotTimestamp(c, id) ==
    LET d == CHOOSE d \in { lastSnapshot[c][i] : i \in 1..Len(lastSnapshot[c]) } : d.id = id
    IN  d.timestamp

\* the positions of the message list of c whose document has a timestamp
Timed(c) ==
    { i \in 1..Len(messageList[c]) :
        /\ messageList[c][i].id \in docIds(lastSnapshot[c])
        /\ snapshotTimestamp(c, messageList[c][i].id) # pendingTimestamp }

\* C16: after every notification the messages of the list that have a
\* timestamp stand in ascending order of their timestamps.
C16_RenderedOrder ==
    \A c \in Clients :
        \A i, j \in Timed(c) :
            i < j => snapshotTimestamp(c, messageList[c][i].id)
                        <= snapshotTimestamp(c, messageList[c][j].id)

\* C17: a listed message whose snapshot timestamp is null is shown as
\* pending; in the notification that brings its timestamp the message gets
\* the place its timestamp has among the timed messages of the list.
C17_PendingThenPlaced ==
    [][\A c \in Clients :
          /\ \A i \in 1..Len(messageList[c]) :
                (messageList[c][i].id \in docIds(lastSnapshot[c])
                 /\ snapshotTimestamp(c, messageList[c][i].id) = pendingTimestamp)
                => messageList[c][i].timestamp = pendingTimestamp
          /\ \A d \in { lastSnapshot[c][i] : i \in 1..Len(lastSnapshot[c]) } :
                ( /\ d.timestamp = pendingTimestamp
                  /\ d.id \in docIds(messageList[c])
                  /\ d.id \in docIds(lastSnapshot'[c])
                  /\ snapshotTimestamp(c, d.id)' # pendingTimestamp )
                => \A i, j \in Timed(c)' :
                      (i < j /\ d.id \in {messageList'[c][i].id, messageList'[c][j].id})
                      => snapshotTimestamp(c, messageList[c][i].id)'
                            <= snapshotTimestamp(c, messageList[c][j].id)']_vars

\* a burst of c has ended: a second or more has passed since its last
\* keystroke and the debounce timer is no longer armed
burstOver(c) ==
    /\ keystrokes[c].any
    /\ ~typingDebounceTimer[c]
    /\ ms - keystrokes[c].last >= debounceDelay

\* C18: a burst of keystrokes less than one second apart issues exactly one
\* Typing Record write when the client was not marked typing as the burst
\* began, and no write at all when it was.
C18_TypingDebounce ==
    \A c \in Clients :
        burstOver(c) =>
            keystrokes[c].writes = IF keystrokes[c].typingAtStart THEN 0 ELSE 1

\* C19: once more than three seconds have passed since the last keystroke of
\* a client, its typing episode is over: the client is no longer marked
\* typing and the delete of its Typing Record has been issued.
C19_TypingExpiry ==
    \A c \in Clients :
        keystrokes[c].any /\ ms - keystrokes[c].last > inactivityDelay
            => ~isTyping[c]
\* the address of c has lost its fragment while a last room is saved, and
\* the hashchange event of that is about to be handled
fragmentCleared(c) ==
    /\ savedRoom[c] # NoRoom
    /\ hash[c] = NoRoom
    /\ hashEvents[c] > 0
    /\ ~isNavigating[c]

onPasswordPrompt(c) ==
    ui[c] = "password" /\ currentRoom[c] = savedRoom[c]

\* C20: when a last room is saved and the address carries no fragment, the
\* client ends up on the password prompt of the saved room, unless the user
\* does something else first.
C20_SavedRoomToPassword ==
    \A c \in Clients : \A n \in 0..MaxUserActions :
        (fragmentCleared(c) /\ userActions = n)
            ~> (onPasswordPrompt(c) \/ userActions > n)
\* C21: a client never remains on the loading screen: whatever an async
\* entry point met (store error, room not found, wrong password) and
\* whatever last room is saved, a navigable screen is eventually shown.
C21_NoStuckLoading ==
    \A c \in Clients :
        (ui[c] = "loading") ~> (ui[c] \in {"room", "password", "name", "chat"})
\* the log of room "r" without the fields the server and the sender fill in
logOf(r) == [i \in 1..Len(messages[r]) |-> <<messages[r][i].kind, messages[r][i].who>>]

entries(s) == { s[i] : i \in 1..Len(s) }

\* C23: no step deletes a Room record, and a step of a clear-history handler
\* leaves the Room records and the Presence Records as they are and takes
\* nothing but documents it has read from the log of its own room.
C23_RoomRecordPersists ==
    [][ /\ DOMAIN rooms \subseteq DOMAIN rooms'
        /\ \A c \in Clients :
              deleteChat'[c] # deleteChat[c] =>
                /\ rooms' = rooms
                /\ users' = users
                /\ \A r \in Rooms :
                      entries(messages[r]) \ entries(messages'[r]) # {} =>
                        /\ deleteChat[c].pc \in {"commit", "app_commit"}
                        /\ r = deleteChat[c].room
                        /\ entries(messages[r]) \ entries(messages'[r])
                              \subseteq entries(deleteChat[c].docs)
      ]_vars

\* u1 has cleared the history of room "r", whose Presence Records remain.
C23_Witness ==
    /\ deleteChat["u1"].pc = "addDoc"
    /\ deleteChat["u1"].room = RoomR
    /\ messages[RoomR] = <<>>
    /\ DOMAIN users[RoomR] # {}
    /\ RoomR \in DOMAIN rooms
\* what a user may type as a room name: every string of at most MaxLen
\* characters over letters of both cases, a digit, the hyphen, a blank and
\* a character outside the pattern
typedChars == {"a", "R", "0", "-", " ", "!"}
RECURSIVE strings(_)
strings(n) ==
    IF n = 0 THEN {<<>>}
    ELSE strings(n - 1) \cup { Append(x, ch) : x \in strings(n - 1), ch \in typedChars }
TypedRoomNames == strings(MaxLen)

\* for every typed name: normalizing twice is normalizing once, and the
\* result holds only characters of the pattern
normalizeOnce ==
    \A x \in TypedRoomNames :
        /\ normalize(normalize(x)) = normalize(x)
        /\ entries(normalize(x)) \subseteq roomChars

\* C24: normalizing a room name twice gives what normalizing it once gives,
\* the result holds only characters of [a-z0-9-], and every Room record is
\* keyed by a non-empty name that normalization leaves as it is.
C24_NormalizeIdempotent ==
    /\ normalizeOnce
    /\ \A r \in DOMAIN rooms :
          r # <<>> /\ normalize(r) = r /\ entries(r) \subseteq roomChars

\* u1 has created the room "r" by typing " R".
C24_Witness ==
    /\ RoomR \in DOMAIN rooms
    /\ normalize(<<" ", "R">>) = RoomR
    /\ \E h \in {hashPassword(<<"p">>)} : <<RoomR, h>> \in createdOrJoined["u1"]
\* C25: a step of a reaper that deletes a Presence Record deletes a record
\* that is stale at that moment; a record its owner has refreshed since the
\* scan stays.
C25_ReaperRevalidates ==
    [][\A c \in Clients :
          cleanup'[c] # cleanup[c] =>
            \A r \in Rooms : \A id \in DOMAIN users[r] \ DOMAIN users'[r] :
                isStale(users[r][id])
      ]_vars
\* the log holds a "<name> has left the room." event of the last five minutes
leftRecently(log, name) ==
    \E i \in 1..Len(log) :
        /\ log[i].kind = "left"
        /\ log[i].who = name
        /\ log[i].timestamp > now - rejoinWindow

\* C26: when a claim by a client without a record of its own reads the log,
\* it decides for "rejoined" exactly when the log holds a "left" event of the
\* last five minutes for the very name it claims.
C26_RejoinDetection ==
    [][\A c \in Clients :
          (nameForm[c].pc = "getMessages" /\ nameForm'[c].pc = "setDoc") =>
            (nameForm'[c].wasRejoining
               <=> leftRecently(messages[nameForm[c].room], userName[c]))
      ]_vars
\* the later of the timestamps a Presence Record holds (a null one is left out)
latestOf(userData) ==
    LET ts == { userData[k] : k \in DOMAIN userData \cap {"lastActive", "joined"} }
    IN CHOOSE t \in ts : \A u \in ts : u <= t

C28_HeartbeatFailureSwallowed ==
    [][\A c \in Clients :
          (heartbeat[c].pc = "updateDoc" /\ heartbeat'[c].pc = "idle"
             /\ users' = users)
          => /\ heartbeatInterval'[c] = heartbeatInterval[c]
             /\ heartbeat'[c] = Idle
             /\ ui'[c] = ui[c]
             /\ currentRoom'[c] = currentRoom[c]
             /\ userName'[c] = userName[c]
             /\ unsubscribeMessages'[c] = unsubscribeMessages[c]
             /\ unsubscribeUsers'[c] = unsubscribeUsers[c]
             /\ unsubscribeTyping'[c] = unsubscribeTyping[c]
             /\ roomError'[c] = roomError[c]
             /\ passwordError'[c] = passwordError[c]
             /\ nameError'[c] = nameError[c]
      ]_vars

\* the heartbeat timer of "b" is active in the chat and its write is in
\* flight on the record a reaper has deleted: the write can only fail
C28_Witness ==
    /\ heartbeat["u2"].pc = "updateDoc"
    /\ ~HasUser(RoomR, "u2")
    /\ heartbeatInterval["u2"] # NoRoom
    /\ ui["u2"] = "chat"
\* the name of the ghost "c" is free for the identity of tab c
ghostNameFree(c) ==
    /\ ~HasUser(RoomR, "u3")
    /\ ~nameIsTaken(users[RoomR], c, ReaperNames["u3"])

\* C29: the record of the ghost "c", whose tab sends no heartbeat, is deleted
\* in the end while "a" stays in the chat with its reaper running, and the
\* name "c" then passes the name check of another identity.
C29_GhostReaped ==
    (/\ ui["u1"] = "chat"
     /\ presenceCleanupInterval["u1"] # NoRoom
     /\ HasUser(RoomR, "u3")) ~> ghostNameFree("u2")

\* the reaper of "a" has deleted the ghost's record and posts its
\* "has disconnected." event
C29_Witness ==
    /\ ghostNameFree("u2")
    /\ cleanup["u1"].pc = "callbacks"
    /\ "u3" \in DOMAIN cleanup["u1"].posts
    /\ ui["u1"] = "chat"
\* C30: the typing set a client renders never holds an entry whose Typing
\* Record timestamp is more than 5 seconds old, and never its own identity.
C30_StaleTypingFiltered ==
    \A c \in Clients : \A e \in typingUsers[c].shown :
        /\ now - e.timestamp <= typingFresh
        /\ e.id # c
\* the typing flag is set exactly by the steps that issue a Typing Record
\* write and cleared exactly by the steps that issue its delete, and a step
\* that clears it cancels the debounce and the inactivity timer
flagSteps ==
    \A c \in Clients :
        /\ (~isTyping[c] /\ isTyping'[c]) =>
              /\ Len(typingOps'[c]) = Len(typingOps[c]) + 1
              /\ typingOps'[c][Len(typingOps'[c])].op = "set"
        /\ (isTyping[c] /\ ~isTyping'[c]) =>
              /\ Len(typingOps'[c]) = Len(typingOps[c]) + 1
              /\ typingOps'[c][Len(typingOps'[c])].op = "delete"
              /\ ~typingDebounceTimer'[c] /\ ~typingTimeout'[c]
        /\ Len(typingOps'[c]) > Len(typingOps[c]) => isTyping'[c] # isTyping[c]

\* the store takes a delete of c's Typing Record off c's queue of writes:
\* either nothing changes (the delete failed) or the record is gone
deleteSettles ==
    \A c \in Clients :
        (Len(typingOps'[c]) < Len(typingOps[c]) /\ Head(typingOps[c]).op = "delete") =>
            \/ typing' = typing
            \/ c \notin DOMAIN typing'[Head(typingOps[c]).room]

\* the flag is down, no typing write is in flight and a Typing Record of the
\* client is in some room
recordLeft(c) ==
    /\ ~isTyping[c]
    /\ typingOps[c] = <<>>
    /\ \E r \in Rooms : c \in DOMAIN typing[r]

noDuplicates(c) ==
    \A i, j \in 1..Len(messageList[c]) :
        messageList[c][i].id = messageList[c][j].id => i = j

\* C32: every message id is on the page at most once, and the ids of the
\* render cache are the ids on the page, also after a clear history.
C32_CacheIsRendered ==
    \A c \in Clients :
        /\ noDuplicates(c)
        /\ messageCache[c] = docIds(messageList[c])
\* the teardown of c has run and c is out of the chat
released(c) == ui[c] \in {"room", "password"}

\* what cleanupSubscriptions takes away: the handles, the timers, the unload
\* handler and the typing set
handlesReleased(c) ==
    /\ unsubscribeMessages[c] = NoSub
    /\ unsubscribeUsers[c] = NoSub
    /\ unsubscribeTyping[c] = NoSub
    /\ heartbeatInterval[c] = NoRoom
    /\ presenceCleanupInterval[c] = NoRoom
    /\ ~beforeUnloadHandler[c]
    /\ typingUsers[c].shown = {}

\* C33: a client whose teardown after a leave or a room change has completed
\* holds no subscription handle, no heartbeat or reaper timer and no unload
\* handler, its typing set is empty and its usersInRoom is empty.
C33_ReleasedIsClean ==
    \A c \in Clients :
        released(c) => (handlesReleased(c) /\ usersInRoom[c] = <<>>)
\* the step is one of a handler of client id that writes Presence Records
ownStep(id) ==
    \/ nameForm'[id] # nameForm[id]
    \/ heartbeat'[id] # heartbeat[id]
    \/ leaving'[id] # leaving[id]
    \/ unloads'[id] # unloads[id]
    \/ cleanup'[id] # cleanup[id]

\* the step is the delete of the record of id by a reaper that found it stale
reaperDelete(r, id) ==
    /\ id \notin DOMAIN users'[r]
    /\ \E c \in Clients :
          /\ cleanup[c].pc = "callbacks"
          /\ cleanup[c].room = r
          /\ id \in DOMAIN cleanup[c].stale
          /\ cleanup'[c] # cleanup[c]

\* C34: a step that creates, changes or deletes the Presence Record keyed by
\* an identity is a step of that identity's own client or the delete of a
\* reaper, and a reaper takes up for deletion only records whose age, as it
\* computed it at its scan, was greater than 60 seconds.
C34_PresenceOwnership ==
    [][/\ \A r \in Rooms : \A id \in DOMAIN users[r] \cup DOMAIN users'[r] :
             (id \notin DOMAIN users[r] \/ id \notin DOMAIN users'[r]
                \/ users'[r][id] # users[r][id])
             => (ownStep(id) \/ reaperDelete(r, id))
       /\ \A c \in Clients :
             (cleanup[c].pc = "getDocs" /\ cleanup'[c].pc = "callbacks") =>
                \A id \in DOMAIN cleanup'[c].stale :
                    now - lastActiveOf(usersSnapshot(c, cleanup[c].room)[id])
                        > staleThreshold
      ]_vars

\* the reaper of "a" has deleted the record of "b", which had entered the chat
C34_Witness ==
    /\ cleanup["u1"].pc = "callbacks"
    /\ "u2" \in DOMAIN cleanup["u1"].posts
    /\ ~HasUser(RoomR, "u2")
    /\ ui["u2"] = "chat"
\* C35: the teardown run on the state a teardown has left changes nothing: no
\* typing write or delete is issued, no handle is released again and no
\* variable of the session changes; and every run of the teardown leaves
\* such a state.
C35_TeardownIdempotent ==
    [][\A c \in Clients :
          cleanupSubscriptions_run(c) =>
             /\ torn(c)'
             /\ torn(c) => UNCHANGED vars]_vars

\* the teardown of "a" ran in the chat while "a" was typing: the flag is down,
\* the delete of its typing record is issued and the handles are released
C35_Witness ==
    /\ torn("u1")
    /\ ui["u1"] = "chat"
    /\ currentRoom["u1"] = RoomR
    /\ typingOps["u1"] # <<>>
    /\ typingOps["u1"][Len(typingOps["u1"])].op = "delete"
\* C36: a client in the chat whose heartbeat timer is running has a Presence
\* Record keyed by its identity in its current room.
C36_ActiveHasRecord ==
    \A c \in Clients :
        (ui[c] = "chat" /\ heartbeatInterval[c] # NoRoom /\ currentRoom[c] # NoRoom)
            => HasUser(currentRoom[c], c)
\* C37: a "has disconnected." event is in the log of the room whose Presence
\* collection held the reaped record: the reaper posts into the room it
\* scanned, and no such event is in the log of a room that held no record.
C37_ReaperPostsToScannedRoom ==
    /\ \A c \in Clients :
          cleanup[c].pc = "callbacks" =>
             \A id \in DOMAIN cleanup[c].posts :
                 cleanup[c].posts[id].room = cleanup[c].room
    /\ \A r \in Rooms \ {RoomR} : \A i \in 1..Len(messages[r]) :
          messages[r][i].kind # "disconnected"
\* the step ends a name claim of client c in the failure branch of its handler
claimFails(c) ==
    /\ nameForm[c].pc # "idle"
    /\ nameForm'[c].pc = "idle"
    /\ nameError'[c] = "An error occurred while joining."

\* C38: a name claim that ends in the failure branch leaves the client on the
\* name screen with no heartbeat timer, no reaper timer and no subscription,
\* and when it failed at the lifecycle post, after its presence write, the
\* room holds no Presence Record of the client.
C38_FailedClaimLeavesNothing ==
    [][\A c \in Clients :
          claimFails(c) =>
             /\ ui'[c] = "name"
             /\ heartbeatInterval'[c] = NoRoom
             /\ presenceCleanupInterval'[c] = NoRoom
             /\ unsubscribeMessages'[c] = NoSub
             /\ unsubscribeUsers'[c] = NoSub
             /\ unsubscribeTyping'[c] = NoSub
             /\ nameForm[c].pc = "addDoc" => c \notin DOMAIN users'[nameForm[c].room]]_vars
\* C39: a heartbeat timer exists only while the client has a current room and
\* a claimed name (the one handle of each kind is the only timer of its kind:
\* startPresenceHeartbeat and startPresenceCleanup clear the handle they
\* overwrite).
C39_TimerHasSession ==
    \A c \in Clients :
        heartbeatInterval[c] # NoRoom =>
            currentRoom[c] # NoRoom /\ userName[c] # NoName
\* C40: the navigation lock is set only while a hashchange event of the
\* client's own fragment assignment is queued.
C40_LockHasPendingEvent ==
    \A c \in Clients : isNavigating[c] => hashEvents[c] > 0
====
